---- MODULE Spec2Model ----
(***************************************************************************)
(* Model of the plex-dedup duplicate resolution engine: scan (duplicate    *)
(* grouping, quality scoring, keeper selection, catalog matching, plan     *)
(* construction) and batched plan execution against the media server, the  *)
(* filesystem and the Radarr/Sonarr catalogs.                              *)
(*                                                                         *)
(* Quality scores are kept in hundredths (the code rounds to 2 decimals).  *)
(* A MediaFile carries an oid field: the identity of the Python object,    *)
(* which the code compares with "is".                                      *)
(***************************************************************************)
EXTENDS Integers, Sequences, FiniteSets, TLC

\* None for an optional string, NoInt for an optional number, NoPos for
\* "no catalog entry" where an entry is named by its position in the catalog
None == "None"
NoInt == -1
NoPos == 0

(***************************************************************************)
(* Bounds of the model.                                                    *)
(***************************************************************************)
\* number of requests (scan, config, execute) one session of the web
\* dashboard is followed for
MaxRequests == 4
\* number of transient failures (a raising filesystem call, a failing
\* catalog write, a refused delete) the collaborators produce in a session
MaxFaults == 1

(***************************************************************************)
(* Generic helpers.                                                        *)
(***************************************************************************)
RECURSIVE Flatten(_)
Flatten(ss) == IF ss = <<>> THEN <<>> ELSE Head(ss) \o Flatten(Tail(ss))

Range(s) == {s[i] : i \in 1..Len(s)}

SeqMap(Op(_), s) == [i \in 1..Len(s) |-> Op(s[i])]

Min(a, b) == IF a < b THEN a ELSE b

\* Python truthiness of an optional string
Truthy(x) == x # None /\ x # ""

\* Python round(x, 2) on a value n/d hundredths (round half to even)
RoundDiv(n, d) ==
    LET q == n \div d
        r == n % d
    IN  IF 2 * r > d THEN q + 1
        ELSE IF 2 * r = d THEN q + (q % 2)
        ELSE q

(***************************************************************************)
(* config.py: Config.quality_ranks default table.  A key "<source>-<res>p" *)
(* is the pair <<source, res>>, a bare key "<source>" the tuple <<source>>.*)
(***************************************************************************)
quality_ranks ==
    ( <<"remux", "2160">>  :> 100 @@ <<"bluray", "2160">> :> 95 @@
      <<"webdl", "2160">>  :> 90  @@ <<"webrip", "2160">> :> 85 @@
      <<"remux", "1080">>  :> 80  @@ <<"bluray", "1080">> :> 75 @@
      <<"webdl", "1080">>  :> 70  @@ <<"webrip", "1080">> :> 65 @@
      <<"bluray", "720">>  :> 50  @@ <<"webdl", "720">>   :> 45 @@
      <<"webrip", "720">>  :> 40  @@ <<"hdtv", "1080">>   :> 35 @@
      <<"hdtv", "720">>    :> 30  @@ <<"dvd">>            :> 20 @@
      <<"sdtv">>           :> 10  @@ <<"unknown">>        :> 0 )

\* a table that penalises files of unknown source
PenaltyRanks == [quality_ranks EXCEPT ![<<"unknown">>] = -10]

\* the tables a Config is constructed with
RankTables == {quality_ranks, PenaltyRanks}

(***************************************************************************)
(* dedup_engine.py: quality scoring.                                       *)
(***************************************************************************)
\* resolution.lower().replace("p", "") over the labels the media server uses
ResLabel(resolution) ==
    CASE resolution = "2160p" -> "2160"
      [] resolution = "1080p" -> "1080"
      [] resolution = "720p"  -> "720"
      [] resolution = "576p"  -> "576"
      [] resolution = "480p"  -> "480"
      [] resolution = "4k"    -> "4k"
      [] resolution = "4K"    -> "4k"
      [] resolution = "sd"    -> "sd"
      [] resolution = "SD"    -> "sd"
      [] OTHER                -> resolution

IsDigit(label) == label \in {"2160", "1080", "720", "576", "480"}

_parse_resolution_rank(resolution) ==
    LET res == ResLabel(resolution)
    IN  CASE res = "4k"   -> 2160
          [] res = "2160" -> 2160
          [] res = "1080" -> 1080
          [] res = "720"  -> 720
          [] res = "576"  -> 576
          [] res = "480"  -> 480
          [] res = "sd"   -> 480
          [] OTHER        -> 0

\* the source patterns, in the order of the patterns dict; a path is
\* abstracted to the set of pattern-relevant substrings of its lower case
SourceOrder == <<"remux", "bluray", "webdl", "webrip", "hdtv", "dvd", "sdtv">>

PatternWords(source) ==
    CASE source = "remux"  -> {"remux", "bdremux"}
      [] source = "bluray" -> {"bluray", "blu-ray", "blu.ray", "bdremux"}
      [] source = "webdl"  -> {"webdl", "web-dl", "web.dl"}
      [] source = "webrip" -> {"webrip", "web-rip", "web.rip"}
      [] source = "hdtv"   -> {"hdtv"}
      [] source = "dvd"    -> {"dvd", "dvdrip"}
      [] source = "sdtv"   -> {"sdtv", "tvrip"}

_parse_source_from_path(file_path) ==
    LET hits == {i \in 1..Len(SourceOrder) :
                    file_path.words \cap PatternWords(SourceOrder[i]) # {}}
    IN  IF hits = {} THEN "unknown"
        ELSE SourceOrder[CHOOSE i \in hits : \A j \in hits : i <= j]

VideoCodecBonus(video_codec) ==
    IF video_codec \in {"HEVC", "H265", "X265"} THEN 10
    ELSE IF video_codec \in {"AV1"} THEN 12
    ELSE IF video_codec \in {"H264", "X264", "AVC"} THEN 5
    ELSE 0

\* an audio codec string is abstracted to the set of tier substrings it
\* contains (after upper()): "DTS-HD MA" contains both "DTS-HD" and "DTS"
AudioSubstrings(audio_codec) ==
    CASE audio_codec = "TRUEHD"  -> {"TRUEHD"}
      [] audio_codec = "TRUEHD ATMOS" -> {"TRUEHD", "ATMOS"}
      [] audio_codec = "DTS-HD"  -> {"DTS-HD", "DTS"}
      [] audio_codec = "DTS:X"   -> {"DTS:X", "DTS"}
      [] audio_codec = "FLAC"    -> {"FLAC"}
      [] audio_codec = "PCM"     -> {"PCM"}
      [] audio_codec = "DTS"     -> {"DTS"}
      [] audio_codec = "EAC3"    -> {"EAC3", "AC3"}
      [] audio_codec = "E-AC3"   -> {"AC3"}
      [] audio_codec = "DD+"     -> {"DD+", "DD"}
      [] audio_codec = "AC3"     -> {"AC3"}
      [] audio_codec = "DD"      -> {"DD"}
      [] audio_codec = "AAC"     -> {"AAC"}
      [] OTHER                   -> {}

AudioCodecBonus(audio_codec) ==
    LET audio == AudioSubstrings(audio_codec)
    IN  IF "TRUEHD" \in audio \/ "ATMOS" \in audio THEN 10
        ELSE IF "DTS-HD" \in audio \/ "DTS:X" \in audio THEN 8
        ELSE IF "FLAC" \in audio \/ "PCM" \in audio THEN 7
        ELSE IF "DTS" \in audio THEN 5
        ELSE IF "EAC3" \in audio \/ "DD+" \in audio THEN 4
        ELSE IF "AC3" \in audio \/ "DD" \in audio THEN 3
        ELSE IF "AAC" \in audio THEN 2
        ELSE 0

QualityKey(source, res_label) ==
    IF IsDigit(res_label) THEN <<source, res_label>> ELSE <<source>>

RankOf(ranks, key) == IF key \in DOMAIN ranks THEN ranks[key] ELSE 0

\* the score in hundredths: the exact sum over the denominator 1080,
\* rounded as round(score, 2)
_score_file(media_file, ranks) ==
    LET res_rank     == _parse_resolution_rank(media_file.resolution)
        source       == _parse_source_from_path(media_file.file_path)
        res_label    == ResLabel(media_file.resolution)
        source_score == RankOf(ranks, QualityKey(source, res_label))
        bitratePart  == IF media_file.bitrate > 0
                        THEN Min(media_file.bitrate, 40000) * 81 ELSE 0
        bonus        == VideoCodecBonus(media_file.video_codec)
                        + AudioCodecBonus(media_file.audio_codec)
    IN  RoundDiv(res_rank * 5000 + bitratePart
                 + 1080 * (50 * source_score + 100 * bonus), 1080)

(***************************************************************************)
(* dedup_engine.py: keep strategies.  Each returns the kept file; the      *)
(* reason string is represented by the strategy tag and the figure it      *)
(* quotes.                                                                 *)
(***************************************************************************)
\* max(files, key=...) and the head of a stable descending sort: the first
\* file whose key is the maximum
FirstMax(files, Key(_)) ==
    LET i == CHOOSE k \in 1..Len(files) :
                /\ \A j \in 1..Len(files) : Key(files[j]) <= Key(files[k])
                /\ \A j \in 1..(k - 1) : Key(files[j]) < Key(files[k])
    IN  files[i]

\* the last file whose key is the maximum
LastMax(files, Key(_)) ==
    LET i == CHOOSE k \in 1..Len(files) :
                /\ \A j \in 1..Len(files) : Key(files[j]) <= Key(files[k])
                /\ \A j \in (k + 1)..Len(files) : Key(files[j]) < Key(files[k])
    IN  files[i]

\* a best_quality whose sort puts the last of equal scores first
_pick_best_quality_unstable(files, ranks) ==
    LET K(f) == _score_file(f, ranks)
        best == LastMax(files, K)
    IN  [keeper |-> best, reason |-> <<"Highest quality score", K(best)>>]

_pick_best_quality(files, ranks) ==
    LET K(f) == _score_file(f, ranks)
        best == FirstMax(files, K)
    IN  [keeper |-> best, reason |-> <<"Highest quality score", K(best)>>]

\* a largest_file that keeps the last of the largest files
_pick_largest_last(files) ==
    LET K(f) == f.file_size
        largest == LastMax(files, K)
    IN  [keeper |-> largest, reason |-> <<"Largest file", largest.file_size>>]

_pick_largest(files) ==
    LET K(f) == f.file_size
        largest == FirstMax(files, K)
    IN  [keeper |-> largest, reason |-> <<"Largest file", largest.file_size>>]

_pick_newest(files) ==
    LET K(f) == f.added_at
        newest == FirstMax(files, K)
    IN  [keeper |-> newest, reason |-> <<"Most recently added", newest.added_at>>]

\* a pick_keeper whose fallback is largest_file
pick_keeper_default_largest(files, strategy, ranks) ==
    IF strategy = "best_quality" THEN _pick_best_quality(files, ranks)
    ELSE IF strategy = "largest_file" THEN _pick_largest(files)
    ELSE IF strategy = "newest" THEN _pick_newest(files)
    ELSE _pick_largest(files)

pick_keeper(files, strategy, ranks) ==
    IF strategy = "best_quality" THEN _pick_best_quality(files, ranks)
    ELSE IF strategy = "largest_file" THEN _pick_largest(files)
    ELSE IF strategy = "newest" THEN _pick_newest(files)
    ELSE _pick_best_quality(files, ranks)

(***************************************************************************)
(* The media server's content.  A path is a record: its directory, its     *)
(* base name and the source words its lower case contains.                 *)
(***************************************************************************)
Path(dir, base, words) == [dir |-> dir, base |-> base, words |-> words]

Stream(streamType, codec) == [streamType |-> streamType, codec |-> codec]

\* a part whose ok flag is FALSE makes _extract_media_file raise
PlexPart(file, size, streams, ok) ==
    [file |-> file, size |-> size, streams |-> streams, ok |-> ok]

PlexMedia(id, videoResolution, bitrate, parts) ==
    [id |-> id, videoResolution |-> videoResolution, bitrate |-> bitrate,
     parts |-> parts]

Guids(tmdb, imdb, tvdb) == [tmdb |-> tmdb, imdb |-> imdb, tvdb |-> tvdb]

PlexMovie(ratingKey, title, year, addedAt, guids, media) ==
    [ratingKey |-> ratingKey, title |-> title, year |-> year,
     addedAt |-> addedAt, guids |-> guids, media |-> media]

PlexEpisode(ratingKey, title, parentIndex, index, addedAt, guids, media) ==
    [ratingKey |-> ratingKey, title |-> title, year |-> NoInt,
     parentIndex |-> parentIndex, index |-> index,
     addedAt |-> addedAt, guids |-> guids, media |-> media]

PlexShow(title, guids, episodesOk, episodes) ==
    [title |-> title, guids |-> guids, episodesOk |-> episodesOk,
     episodes |-> episodes]

VA(v, a) == <<Stream(1, v), Stream(2, a)>>

MvMatrix ==
    PlexMovie(10, "The Matrix", 1999, 3, Guids("603", "tt0133093", None),
      << PlexMedia(1, "4k", 60000,
           <<PlexPart(Path("/movies/matrix", "matrix.remux.mkv", {"remux"}),
                      50, VA("hevc", "truehd"), TRUE)>>),
         PlexMedia(2, "1080", 20000,
           <<PlexPart(Path("/movies/matrix", "matrix.bluray.mkv", {"bluray"}),
                      70, VA("h264", "dts"), TRUE)>>) >>)

\* one media item stored in two parts (cd1/cd2): both parts carry media id 3
MvHeat ==
    PlexMovie(11, "Heat", 1995, 5, Guids(None, "tt0113277", None),
      << PlexMedia(3, "720", 8000,
           <<PlexPart(Path("/movies/heat", "heat.cd1.avi", {"dvdrip", "dvd"}),
                      20, VA("mpeg4", "ac3"), TRUE),
             PlexPart(Path("/movies/heat", "heat.cd2.avi", {"dvdrip", "dvd"}),
                      20, VA("mpeg4", "ac3"), TRUE)>>) >>)

\* a single file: never a duplicate group
MvSolo ==
    PlexMovie(12, "Solo", 2018, 7, Guids("348350", None, None),
      << PlexMedia(4, "1080", 10000,
           <<PlexPart(Path("/movies/solo", "solo.webdl.mkv", {"webdl", "web-dl"}),
                      30, VA("h264", "eac3"), TRUE)>>) >>)

\* three versions in three directories, two of them with the same base name
\* and the same score; one part cannot be read
MvAlien ==
    PlexMovie(13, "Alien", 1979, 2, Guids("348", "tt0078748", None),
      << PlexMedia(5, "1080", 12000,
           <<PlexPart(Path("/movies/alien-a", "alien.mkv", {}),
                      40, VA("h264", "aac"), TRUE)>>),
         PlexMedia(6, "1080", 12000,
           <<PlexPart(Path("/movies/alien-b", "alien.mkv", {}),
                      45, VA("h264", "aac"), TRUE)>>),
         PlexMedia(7, "sd", 0,
           <<PlexPart(Path("/movies/alien-c", "alien.sd.avi", {"tvrip"}),
                      45, <<>>, TRUE),
             PlexPart(Path("/movies/alien-c", "alien.bad.avi", {}),
                      1, <<>>, FALSE)>>) >>)

\* three versions in three directories; the two lesser ones have the same
\* base name
MvBlade ==
    PlexMovie(14, "Blade", 1998, 1, Guids(None, None, None),
      << PlexMedia(11, "1080", 30000,
           <<PlexPart(Path("/movies/blade", "blade.remux.mkv", {"remux"}),
                      60, VA("hevc", "dts"), TRUE)>>),
         PlexMedia(12, "720", 4000,
           <<PlexPart(Path("/movies/blade-a", "blade.mkv", {}),
                      10, VA("h264", "aac"), TRUE)>>),
         PlexMedia(13, "720", 4000,
           <<PlexPart(Path("/movies/blade-b", "blade.mkv", {}),
                      10, VA("h264", "aac"), TRUE)>>) >>)

EpPilot ==
    PlexEpisode(20, "Pilot", 1, 1, 4, Guids(None, "tt0959621", None),
      << PlexMedia(8, "1080", 9000,
           <<PlexPart(Path("/tv/bb/s01", "bb.s01e01.hdtv.mkv", {"hdtv"}),
                      15, VA("h264", "ac3"), TRUE)>>),
         PlexMedia(9, "720", 4000,
           <<PlexPart(Path("/tv/bb/s01", "bb.s01e01.webrip.mkv", {"webrip"}),
                      10, VA("hevc", "aac"), TRUE)>>) >>)

EpSecond ==
    PlexEpisode(21, "Second", 1, 2, 6, Guids(None, None, None),
      << PlexMedia(10, "720", 4000,
           <<PlexPart(Path("/tv/bb/s01", "bb.s01e02.mkv", {}),
                      10, VA("h264", "aac"), TRUE)>>) >>)

ShowBB == PlexShow("Breaking Bad", Guids(None, "tt0903747", "81189"), TRUE,
                   <<EpPilot, EpSecond>>)

\* a show whose episode list cannot be fetched
ShowLost == PlexShow("Lost", Guids(None, None, "73739"), FALSE, <<>>)

\* the contents the media server may hold when the program starts
ServerSnapshots ==
    { [movies |-> movies, shows |-> shows, allow_delete |-> allow] :
        movies \in {<<MvMatrix, MvSolo>>}, shows \in {<<ShowLost, ShowBB>>},
        allow \in BOOLEAN }
    \cup
    { [movies |-> movies, shows |-> <<>>, allow_delete |-> allow] :
        movies \in {<<MvHeat>>, <<MvAlien>>, <<MvBlade>>}, allow \in BOOLEAN }

(***************************************************************************)
(* plex_client.py: MediaFile extraction and duplicate grouping.            *)
(***************************************************************************)
Upper(codec) ==
    CASE codec = "hevc"   -> "HEVC"
      [] codec = "h264"   -> "H264"
      [] codec = "mpeg4"  -> "MPEG4"
      [] codec = "truehd" -> "TRUEHD"
      [] codec = "dts"    -> "DTS"
      [] codec = "ac3"    -> "AC3"
      [] codec = "eac3"   -> "EAC3"
      [] codec = "aac"    -> "AAC"
      [] OTHER            -> codec

\* f"{resolution}p" if resolution.isdigit() else resolution
AddP(resolution) ==
    CASE resolution = "2160" -> "2160p"
      [] resolution = "1080" -> "1080p"
      [] resolution = "720"  -> "720p"
      [] resolution = "576"  -> "576p"
      [] resolution = "480"  -> "480p"
      [] OTHER               -> resolution

MediaFile(oid, item, media, part, media_type, show_title, season_num, episode_num) ==
    LET video == SelectSeq(part.streams, LAMBDA st : st.streamType = 1)
        audio == SelectSeq(part.streams,
                           LAMBDA st : st.streamType = 2 /\ st.codec # "")
    IN  [ oid             |-> oid,
          title           |-> item.title,
          year            |-> item.year,
          plex_rating_key |-> item.ratingKey,
          file_path       |-> part.file,
          file_size       |-> part.size,
          resolution      |-> IF video = <<>> THEN ""
                              ELSE AddP(media.videoResolution),
          video_codec     |-> IF video = <<>> THEN ""
                              ELSE Upper(video[Len(video)].codec),
          audio_codec     |-> IF audio = <<>> THEN "" ELSE Upper(audio[1].codec),
          bitrate         |-> media.bitrate,
          added_at        |-> item.addedAt,
          media_id        |-> media.id,
          show_title      |-> show_title,
          season_number   |-> season_num,
          episode_number  |-> episode_num,
          media_type      |-> media_type ]

\* the (media, part) pairs of an item in iteration order, unreadable parts
\* skipped, each extracted as a new MediaFile object
_extract_media_file(item, media_type, show_title, season_num, episode_num) ==
    LET pairs == Flatten([m \in 1..Len(item.media) |->
                    [p \in 1..Len(item.media[m].parts) |->
                        [media |-> item.media[m],
                         part  |-> item.media[m].parts[p]]]])
        good  == SelectSeq(pairs, LAMBDA mp : mp.part.ok)
    IN  [i \in 1..Len(good) |->
            MediaFile(i, item, good[i].media, good[i].part,
                      media_type, show_title, season_num, episode_num)]

DuplicateGroup(title, year, key, files, tmdb, imdb, tvdb, media_type, show_title, season_number, episode_number) ==
    [ title |-> title, year |-> year, plex_rating_key |-> key,
      files |-> files, tmdb_id |-> tmdb, imdb_id |-> imdb, tvdb_id |-> tvdb,
      media_type |-> media_type, show_title |-> show_title,
      season_number |-> season_number, episode_number |-> episode_number ]

MovieGroup(movie) ==
    DuplicateGroup(movie.title, movie.year, movie.ratingKey,
                   _extract_media_file(movie, "movie", "", NoInt, NoInt),
                   movie.guids.tmdb, movie.guids.imdb, None, "movie",
                   "", NoInt, NoInt)

find_movie_duplicates(movies) ==
    SelectSeq(SeqMap(MovieGroup, movies), LAMBDA g : Len(g.files) > 1)

EpisodeGroup(show, episode) ==
    DuplicateGroup(episode.title, episode.year, episode.ratingKey,
                   _extract_media_file(episode, "episode", show.title,
                                       episode.parentIndex, episode.index),
                   None, episode.guids.imdb,
                   IF Truthy(show.guids.tvdb) THEN show.guids.tvdb
                   ELSE episode.guids.tvdb,
                   "episode", show.title, episode.parentIndex, episode.index)

find_episode_duplicates(shows) ==
    LET ShowGroups(show) ==
            IF ~show.episodesOk THEN <<>>
            ELSE SelectSeq([e \in 1..Len(show.episodes) |->
                               EpisodeGroup(show, show.episodes[e])],
                           LAMBDA g : Len(g.files) > 1)
    IN  Flatten(SeqMap(ShowGroups, shows))

(***************************************************************************)
(* The external catalogs (Radarr movies, Sonarr series and episodes).      *)
(***************************************************************************)
RadarrMovie(id, tmdbId, imdbId, title, year, monitored) ==
    [id |-> id, tmdbId |-> tmdbId, imdbId |-> imdbId, title |-> title,
     year |-> year, monitored |-> monitored]

SonarrSeries(id, tvdbId, imdbId, title, monitored) ==
    [id |-> id, tvdbId |-> tvdbId, imdbId |-> imdbId, title |-> title,
     monitored |-> monitored]

SonarrEpisode(id, seriesId, seasonNumber, episodeNumber, monitored) ==
    [id |-> id, seriesId |-> seriesId, seasonNumber |-> seasonNumber,
     episodeNumber |-> episodeNumber, monitored |-> monitored]

RadarrCatalog ==
    << RadarrMovie(1, 603, "tt0133093", "The Matrix", 1999, TRUE),
       RadarrMovie(2, 949, "tt0113277", "Heat", 1995, FALSE),
       RadarrMovie(3, 9999, "", "Alien", 1979, TRUE),
       RadarrMovie(4, 348, "tt0078748", "Alien (Director's Cut)", 1979, TRUE) >>

SonarrCatalog ==
    << SonarrSeries(1, 81189, "tt0903747", "Breaking Bad", TRUE),
       SonarrSeries(2, 73739, "tt0959621", "Lost", TRUE) >>

SonarrEpisodes ==
    << SonarrEpisode(100, 1, 1, 1, TRUE),
       SonarrEpisode(101, 1, 1, 2, TRUE),
       SonarrEpisode(200, 2, 1, 1, TRUE) >>

\* str(x) of an identifier of the catalogs
Str(n) ==
    CASE n = 603   -> "603"
      [] n = 949   -> "949"
      [] n = 9999  -> "9999"
      [] n = 348   -> "348"
      [] n = 81189 -> "81189"
      [] n = 73739 -> "73739"
      [] n = 1999  -> "1999"
      [] n = 1998  -> "1998"
      [] n = 1995  -> "1995"
      [] n = 1979  -> "1979"
      [] n = 2018  -> "2018"
      [] OTHER     -> ""

\* title.lower()
Lower(title) ==
    CASE title = "The Matrix"   -> "the matrix"
      [] title = "Heat"         -> "heat"
      [] title = "Alien"        -> "alien"
      [] title = "Solo"         -> "solo"
      [] title = "Alien (Director's Cut)" -> "alien (director's cut)"
      [] title = "Breaking Bad" -> "breaking bad"
      [] title = "Lost"         -> "lost"
      [] title = "Blade"        -> "blade"
      [] title = "Dark"         -> "dark"
      [] OTHER                  -> title

EmptyIndex == [k \in {} |-> 0]

\* an index maps a key to the position of the catalog entry stored under
\* it; a later entry overwrites an earlier one under the same key
BuildIndex(catalog, KeysOf(_)) ==
    LET keys == UNION {KeysOf(catalog[i]) : i \in 1..Len(catalog)}
    IN  [k \in keys |->
            CHOOSE i \in 1..Len(catalog) :
                /\ k \in KeysOf(catalog[i])
                /\ \A j \in (i + 1)..Len(catalog) : k \notin KeysOf(catalog[j])]

RadarrKeys(movie) ==
    (IF Str(movie.tmdbId) # "" THEN {<<"tmdb", Str(movie.tmdbId)>>} ELSE {})
    \cup (IF Truthy(movie.imdbId) THEN {<<"imdb", movie.imdbId>>} ELSE {})
    \cup {<<"title", Lower(movie.title), Str(movie.year)>>}

\* an index built from the catalog whether or not the fetch succeeded
_build_radarr_index_stale(catalog, fetchOk) == BuildIndex(catalog, RadarrKeys)

\* fetchOk is FALSE when radarr.get_all_movies() raises
_build_radarr_index(catalog, fetchOk) ==
    IF fetchOk THEN BuildIndex(catalog, RadarrKeys) ELSE EmptyIndex

SonarrKeys(series) ==
    (IF Str(series.tvdbId) # "" THEN {<<"tvdb", Str(series.tvdbId)>>} ELSE {})
    \cup (IF Truthy(series.imdbId) THEN {<<"imdb", series.imdbId>>} ELSE {})
    \cup {<<"title", Lower(series.title)>>}

_build_sonarr_index(catalog, fetchOk) ==
    IF fetchOk THEN BuildIndex(catalog, SonarrKeys) ELSE EmptyIndex

IndexGet(index, key) == IF key \in DOMAIN index THEN index[key] ELSE NoPos

\* a lookup that tries the title key before the identifiers
_find_in_radarr_title_first(group, index) ==
    LET byTmdb == IF Truthy(group.tmdb_id)
                  THEN IndexGet(index, <<"tmdb", group.tmdb_id>>) ELSE NoPos
        byImdb == IF Truthy(group.imdb_id)
                  THEN IndexGet(index, <<"imdb", group.imdb_id>>) ELSE NoPos
        year   == IF group.year = NoInt \/ group.year = 0 THEN ""
                  ELSE Str(group.year)
        byTitle == IndexGet(index, <<"title", Lower(group.title), year>>)
    IN  IF byTitle # NoPos THEN byTitle
        ELSE IF byTmdb # NoPos THEN byTmdb
        ELSE byImdb

_find_in_radarr(group, index) ==
    LET byTmdb == IF Truthy(group.tmdb_id)
                  THEN IndexGet(index, <<"tmdb", group.tmdb_id>>) ELSE NoPos
        byImdb == IF Truthy(group.imdb_id)
                  THEN IndexGet(index, <<"imdb", group.imdb_id>>) ELSE NoPos
        year   == IF group.year = NoInt \/ group.year = 0 THEN ""
                  ELSE Str(group.year)
    IN  IF byTmdb # NoPos THEN byTmdb
        ELSE IF byImdb # NoPos THEN byImdb
        ELSE IndexGet(index, <<"title", Lower(group.title), year>>)

\* a find_episode that searches the episodes of every series
find_episode_any_series(episodes, fetchOk, series_id, season_number, episode_number) ==
    LET hits == {i \in 1..Len(episodes) :
                    /\ fetchOk
                    /\ episodes[i].seasonNumber = season_number
                    /\ episodes[i].episodeNumber = episode_number}
    IN  IF hits = {} THEN NoPos
        ELSE CHOOSE i \in hits : \A j \in hits : i <= j

\* sonarr.find_episode: the position of the first episode of the series
\* with the given numbers; the list is empty when it cannot be fetched
find_episode(episodes, fetchOk, series_id, season_number, episode_number) ==
    LET hits == {i \in 1..Len(episodes) :
                    /\ fetchOk
                    /\ episodes[i].seriesId = series_id
                    /\ episodes[i].seasonNumber = season_number
                    /\ episodes[i].episodeNumber = episode_number}
    IN  IF hits = {} THEN NoPos
        ELSE CHOOSE i \in hits : \A j \in hits : i <= j

\* the position of the series in the catalog and of the episode in the
\* episode list (NoPos when there is none), and whether sonarr.find_episode
\* was called
_find_in_sonarr(group, index, catalog, episodes, episodesOk) ==
    LET s1 == IF Truthy(group.tvdb_id)
              THEN IndexGet(index, <<"tvdb", group.tvdb_id>>) ELSE NoPos
        s2 == IF s1 = NoPos /\ Truthy(group.imdb_id)
              THEN IndexGet(index, <<"imdb", group.imdb_id>>) ELSE s1
        series == IF s2 = NoPos /\ Truthy(group.show_title)
                  THEN IndexGet(index, <<"title", Lower(group.show_title)>>)
                  ELSE s2
        episode == IF /\ series # NoPos
                      /\ group.season_number # NoInt
                      /\ group.episode_number # NoInt
                   THEN find_episode(episodes, episodesOk, catalog[series].id,
                                     group.season_number, group.episode_number)
                   ELSE NoPos
    IN  [series |-> series, episode |-> episode,
         looked_up |-> /\ series # NoPos
                       /\ group.season_number # NoInt
                       /\ group.episode_number # NoInt]

(***************************************************************************)
(* dedup_engine.py: plan construction (scan_movies, scan_episodes).        *)
(* arr_entry is the position of the matched entry in the fetched catalog   *)
(* (the dict objects of one fetch are shared by the plans of that scan);   *)
(* arr_episode is <<>> for None or <<dict>>, a dict of its own per plan.   *)
(***************************************************************************)
DeduplicationPlan(group, keep, remove, reason, arr_entry, arr_episode) ==
    [ group |-> group, keep |-> keep, remove |-> remove, reason |-> reason,
      arr_entry |-> arr_entry, arr_episode |-> arr_episode,
      executed |-> FALSE, error |-> None ]

\* a removal list that drops every file of the keeper's media item
ToRemove_by_media_id(files, keeper) ==
    SelectSeq(files, LAMBDA f : f.media_id # keeper.media_id)

\* [f for f in group.files if f is not keeper]
ToRemove(files, keeper) == SelectSeq(files, LAMBDA f : f.oid # keeper.oid)

scan_movies(srv, catalog, fetchOk, strategy, ranks) ==
    LET duplicates   == find_movie_duplicates(srv.movies)
        radarr_index == _build_radarr_index(catalog, fetchOk)
        Plan(group) ==
            LET picked == pick_keeper(group.files, strategy, ranks)
            IN  DeduplicationPlan(group, picked.keeper,
                                  ToRemove(group.files, picked.keeper),
                                  picked.reason,
                                  _find_in_radarr(group, radarr_index), <<>>)
    IN  SeqMap(Plan, duplicates)

scan_episodes(srv, catalog, fetchOk, episodes, episodesOk, strategy, ranks) ==
    LET duplicates   == find_episode_duplicates(srv.shows)
        sonarr_index == _build_sonarr_index(catalog, fetchOk)
        Plan(group) ==
            LET picked == pick_keeper(group.files, strategy, ranks)
                found  == _find_in_sonarr(group, sonarr_index, catalog,
                                          episodes, episodesOk)
            IN  DeduplicationPlan(group, picked.keeper,
                                  ToRemove(group.files, picked.keeper),
                                  picked.reason, found.series,
                                  IF found.episode = NoPos THEN <<>>
                                  ELSE <<episodes[found.episode]>>)
    IN  SeqMap(Plan, duplicates)

(***************************************************************************)
(* The media server's side of delete_media: the media item with that id    *)
(* is dropped from the library item, an item left without media is dropped *)
(* from the library, and the files of all its parts are deleted.           *)
(***************************************************************************)
HasMedia(item, rating_key, media_id) ==
    /\ item.ratingKey = rating_key
    /\ \E m \in 1..Len(item.media) : item.media[m].id = media_id

DropMedia(items, rating_key, media_id) ==
    LET Drop(item) ==
            IF item.ratingKey = rating_key
            THEN [item EXCEPT !.media =
                     SelectSeq(item.media, LAMBDA md : md.id # media_id)]
            ELSE item
    IN  SelectSeq(SeqMap(Drop, items), LAMBDA item : item.media # <<>>)

AllEpisodes(srv) == Flatten(SeqMap(LAMBDA sh : sh.episodes, srv.shows))

ServerHasMedia(srv, rating_key, media_id) ==
    \/ \E i \in 1..Len(srv.movies) : HasMedia(srv.movies[i], rating_key, media_id)
    \/ \E i \in 1..Len(AllEpisodes(srv)) :
          HasMedia(AllEpisodes(srv)[i], rating_key, media_id)

ServerDelete(srv, rating_key, media_id) ==
    [ srv EXCEPT
        !.movies = DropMedia(srv.movies, rating_key, media_id),
        !.shows  = SeqMap(LAMBDA sh : [sh EXCEPT !.episodes =
                              DropMedia(sh.episodes, rating_key, media_id)],
                          srv.shows) ]

ItemFiles(item) ==
    UNION {{item.media[m].parts[p].file : p \in 1..Len(item.media[m].parts)} :
              m \in 1..Len(item.media)}

ServerFiles(srv) ==
    UNION ({ItemFiles(srv.movies[i]) : i \in 1..Len(srv.movies)}
           \cup {ItemFiles(AllEpisodes(srv)[i]) : i \in 1..Len(AllEpisodes(srv))})

(***************************************************************************)
(* State.                                                                  *)
(***************************************************************************)
VARIABLES
    config,          \* Config: dry_run, keep_strategy, auto_unmonitor,
                     \*         delete_files, recycle_bin, quality_ranks
    server,          \* the media server: movies, shows, and whether it is
                     \* set to allow media deletion
    fs,              \* paths of the files that exist in the library folders
    dirs,            \* directories that exist
    bin,             \* recycle location: base name |-> the file moved there
    radarr,          \* the movies as Radarr holds them
    sonarr_episodes, \* the episodes as Sonarr holds them
    radarr_objs,     \* the movie dicts of the last fetch (shared by plans)
    current_plans,   \* app.py: current_plans
    _plans,          \* DedupEngine._plans: positions in current_plans
    pc,              \* "idle", or the position inside execute_all/execute_plan
    mode,            \* "batch" (execute_all) or "single" (execute_plan alone)
    batch,           \* the plans of the running request: positions in current_plans
    bi,              \* position in batch of the plan being executed
    fi,              \* position in plan.remove of the file being removed
    success,         \* execute_all: success
    failed,          \* execute_all: failed
    rets,            \* return values of execute_plan in the running request
    result,          \* what the last request returned
    calls,           \* calls issued to the collaborators by the last request
    requests,        \* number of requests received so far
    faults           \* number of transient failures produced so far

vars == << config, server, fs, dirs, bin, radarr, sonarr_episodes, radarr_objs,
           current_plans, _plans, pc, mode, batch, bi, fi, success, failed,
           rets, result, calls, requests, faults >>

envVars  == << server, fs, dirs, bin, radarr, sonarr_episodes >>
loopVars == << mode, batch, bi, fi, success, failed, rets >>

Strategies == {"best_quality", "largest_file", "newest"}
RecycleBins == {"", "/recycle"}
\* a rating key no library item has
MissingKey == 99

\* files in the library folders that the media server does not list
ExtraFiles == {Path("/movies/matrix", "poster.jpg", {})}

Call(op, key, a, b, ok) == [op |-> op, key |-> key, a |-> a, b |-> b, ok |-> ok]

\* Config.from_env: the configurations the program is started with
InitConfigs ==
    [ dry_run : BOOLEAN, keep_strategy : {"best_quality"},
      auto_unmonitor : {TRUE}, delete_files : {TRUE},
      recycle_bin : RecycleBins, quality_ranks : {quality_ranks} ]

\* a request is received: the trace of the previous one is dropped
Request ==
    /\ pc = "idle"
    /\ requests < MaxRequests
    /\ requests' = requests + 1

ResetLoop ==
    /\ mode' = "batch"
    /\ batch' = <<>>
    /\ bi' = 0
    /\ fi' = 0
    /\ success' = 0
    /\ failed' = 0
    /\ rets' = <<>>

NoResult == [kind |-> "none", success |-> 0, failed |-> 0]

InitWith(configs, servers) ==
    /\ config \in configs
    /\ server \in servers
    /\ fs = ServerFiles(server) \cup ExtraFiles
    /\ dirs = {f.dir : f \in ServerFiles(server) \cup ExtraFiles}
    /\ bin = {}
    /\ radarr = RadarrCatalog
    /\ sonarr_episodes = SonarrEpisodes
    /\ radarr_objs = <<>>
    /\ current_plans = <<>>
    /\ _plans = <<>>
    /\ pc = "idle"
    /\ mode = "batch"
    /\ batch = <<>>
    /\ bi = 0
    /\ fi = 0
    /\ success = 0
    /\ failed = 0
    /\ rets = <<>>
    /\ result = NoResult
    /\ calls = <<>>
    /\ requests = 0
    /\ faults = 0

Init == InitWith(InitConfigs, ServerSnapshots)

(***************************************************************************)
(* app.py: /api/scan.  The Ok flags are the collaborators' answers: the    *)
(* media server reachable for the movie / TV library, the Radarr, Sonarr   *)
(* series and Sonarr episode fetches succeeding; down is the set of those  *)
(* that fail.  The library and catalog fetches of the scan are kept in     *)
(* calls.                                                                  *)
(***************************************************************************)
\* a scan_all that gives up when either library scan fails
scan_all_abort(moviePlans, episodePlans, plexMoviesOk, plexTvOk) ==
    IF plexMoviesOk /\ plexTvOk THEN moviePlans \o episodePlans ELSE <<>>

scan_all(moviePlans, episodePlans, plexMoviesOk, plexTvOk) ==
    (IF plexMoviesOk THEN moviePlans ELSE <<>>)
    \o (IF plexTvOk THEN episodePlans ELSE <<>>)

api_scan(scan_type, down) ==
    LET plexMoviesOk == "plexMovies" \notin down
        plexTvOk     == "plexTv" \notin down
        radarrOk     == "radarr" \notin down
        sonarrOk     == "sonarr" \notin down
        episodesOk   == "episodes" \notin down
        moviePlans   == scan_movies(server, radarr, radarrOk,
                                    config.keep_strategy, config.quality_ranks)
        episodePlans == scan_episodes(server, SonarrCatalog, sonarrOk,
                                      sonarr_episodes, episodesOk,
                                      config.keep_strategy, config.quality_ranks)
        raised == \/ scan_type = "tv" /\ ~plexTvOk
                  \/ scan_type = "movies" /\ ~plexMoviesOk
        plans  == CASE scan_type = "all" ->
                         scan_all(moviePlans, episodePlans, plexMoviesOk, plexTvOk)
                    [] scan_type = "tv" -> episodePlans
                    [] scan_type = "movies" -> moviePlans
        movieFetches ==
            <<Call("find_movie_duplicates", 0, 0, 0, plexMoviesOk)>>
            \o (IF plexMoviesOk
                THEN <<Call("get_all_movies", 0, 0, 0, radarrOk)>> ELSE <<>>)
        tvFetches ==
            <<Call("find_episode_duplicates", 0, 0, 0, plexTvOk)>>
            \o (IF plexTvOk
                THEN <<Call("get_all_series", 0, 0, 0, sonarrOk)>> ELSE <<>>)
        fetches == (IF scan_type # "tv" THEN movieFetches ELSE <<>>)
                   \o (IF scan_type # "movies" THEN tvFetches ELSE <<>>)
    IN  /\ Request
        /\ calls' = fetches
        /\ ResetLoop
        /\ IF raised
           THEN /\ result' = [kind |-> "error", success |-> 0, failed |-> 0]
                /\ UNCHANGED << current_plans, _plans, radarr_objs >>
           ELSE /\ current_plans' = plans
                /\ _plans' = [i \in 1..Len(plans) |-> i]
                /\ radarr_objs' = IF scan_type # "tv" /\ plexMoviesOk /\ radarrOk
                                  THEN radarr ELSE <<>>
                /\ result' = [kind |-> "scan", success |-> 0, failed |-> 0]
        /\ UNCHANGED << config, envVars, pc, faults >>

(***************************************************************************)
(* app.py: /api/config (PUT).  The config object is updated and a new      *)
(* engine, with an empty _plans, replaces the old one.                     *)
(***************************************************************************)
api_config(dry_run, keep_strategy, auto_unmonitor, delete_files) ==
    /\ Request
    /\ ResetLoop
    /\ config' = [config EXCEPT !.dry_run = dry_run,
                                !.keep_strategy = keep_strategy,
                                !.auto_unmonitor = auto_unmonitor,
                                !.delete_files = delete_files]
    /\ _plans' = <<>>
    /\ calls' = <<>>
    /\ result' = [kind |-> "config", success |-> 0, failed |-> 0]
    /\ UNCHANGED << envVars, radarr_objs, current_plans, pc, faults >>

(***************************************************************************)
(* app.py: /api/execute and /api/execute/<rating_key>; dedup_engine.py:    *)
(* execute_all and execute_plan, one step per plan phase.                  *)
(***************************************************************************)
PlanKeys == {current_plans[i].group.plex_rating_key : i \in 1..Len(current_plans)}

\* the selections explored: none (all plans), the last plan's rating key,
\* a key that matches no plan
Selections ==
    {{}, {MissingKey}}
    \cup {{current_plans[i].group.plex_rating_key} :
             i \in {Len(current_plans)} \ {0}}

PlansToRun(selected_keys) ==
    IF selected_keys = {} THEN [i \in 1..Len(current_plans) |-> i]
    ELSE LET hit == {i \in 1..Len(current_plans) :
                        current_plans[i].group.plex_rating_key \in selected_keys}
         IN  SelectSeq([i \in 1..Len(current_plans) |-> i], LAMBDA i : i \in hit)

\* an execute_all that walks the plan list from its end
execute_all_begin_reversed(plans) ==
    LET given == IF plans # <<>> THEN plans ELSE _plans
        run   == [j \in 1..Len(given) |-> given[Len(given) + 1 - j]]
    IN  /\ mode' = "batch"
        /\ batch' = run
        /\ bi' = 1
        /\ fi' = 0
        /\ success' = 0
        /\ failed' = 0
        /\ rets' = <<>>
        /\ pc' = IF run = <<>> THEN "refresh" ELSE "plan"

\* execute_all: plans = plans or self._plans; the loop starts
execute_all_begin(plans) ==
    LET run == IF plans # <<>> THEN plans ELSE _plans
    IN  /\ mode' = "batch"
        /\ batch' = run
        /\ bi' = 1
        /\ fi' = 0
        /\ success' = 0
        /\ failed' = 0
        /\ rets' = <<>>
        /\ pc' = IF run = <<>> THEN "refresh" ELSE "plan"

api_execute(selected_keys) ==
    /\ Request
    /\ calls' = <<>>
    /\ IF current_plans = <<>>
       THEN /\ result' = [kind |-> "error", success |-> 0, failed |-> 0]
            /\ ResetLoop
            /\ UNCHANGED pc
       ELSE /\ execute_all_begin(PlansToRun(selected_keys))
            /\ result' = NoResult
    /\ UNCHANGED << config, envVars, radarr_objs, current_plans, _plans,
                        faults >>

api_execute_single(rating_key) ==
    LET hit == {i \in 1..Len(current_plans) :
                   current_plans[i].group.plex_rating_key = rating_key}
    IN  /\ Request
        /\ calls' = <<>>
        /\ IF hit = {}
           THEN /\ result' = [kind |-> "error", success |-> 0, failed |-> 0]
                /\ ResetLoop
                /\ UNCHANGED pc
           ELSE /\ mode' = "single"
                /\ batch' = << CHOOSE i \in hit : \A j \in hit : i <= j >>
                /\ bi' = 1
                /\ fi' = 0
                /\ rets' = <<>>
                /\ pc' = "plan"
                /\ result' = NoResult
                /\ success' = 0
                /\ failed' = 0
        /\ UNCHANGED << config, envVars, radarr_objs, current_plans, _plans,
                        faults >>

\* the plan being executed
Cur == batch[bi]
CurPlan == current_plans[Cur]
CurKey == CurPlan.group.plex_rating_key

\* an execute_all that leaves the loop at the first failing plan
Returned_abort(ok) ==
    /\ rets' = Append(rets, ok)
    /\ fi' = 0
    /\ UNCHANGED << mode, batch >>
    /\ IF mode = "single"
       THEN /\ pc' = "idle"
            /\ result' = [kind |-> "single",
                          success |-> IF ok THEN 1 ELSE 0,
                          failed |-> IF ok THEN 0 ELSE 1]
            /\ UNCHANGED << bi, success, failed >>
       ELSE /\ success' = IF ok THEN success + 1 ELSE success
            /\ failed' = IF ok THEN failed ELSE failed + 1
            /\ bi' = bi + 1
            /\ pc' = IF bi = Len(batch) \/ ~ok THEN "refresh" ELSE "plan"
            /\ UNCHANGED result

\* an execute_all that counts only the successes
Returned_miscount(ok) ==
    /\ rets' = Append(rets, ok)
    /\ fi' = 0
    /\ UNCHANGED << mode, batch >>
    /\ IF mode = "single"
       THEN /\ pc' = "idle"
            /\ result' = [kind |-> "single",
                          success |-> IF ok THEN 1 ELSE 0,
                          failed |-> IF ok THEN 0 ELSE 1]
            /\ UNCHANGED << bi, success, failed >>
       ELSE /\ success' = IF ok THEN success + 1 ELSE success
            /\ failed' = failed
            /\ bi' = bi + 1
            /\ pc' = IF bi = Len(batch) THEN "refresh" ELSE "plan"
            /\ UNCHANGED result

\* execute_plan has returned ok: execute_all counts it and moves on,
\* /api/execute/<rating_key> answers
Returned(ok) ==
    /\ rets' = Append(rets, ok)
    /\ fi' = 0
    /\ UNCHANGED << mode, batch >>
    /\ IF mode = "single"
       THEN /\ pc' = "idle"
            /\ result' = [kind |-> "single",
                          success |-> IF ok THEN 1 ELSE 0,
                          failed |-> IF ok THEN 0 ELSE 1]
            /\ UNCHANGED << bi, success, failed >>
       ELSE /\ success' = IF ok THEN success + 1 ELSE success
            /\ failed' = IF ok THEN failed ELSE failed + 1
            /\ bi' = bi + 1
            /\ pc' = IF bi = Len(batch) THEN "refresh" ELSE "plan"
            /\ UNCHANGED result

\* execute_plan, dry run: only logging
ExecDry ==
    /\ pc = "plan"
    /\ config.dry_run
    /\ current_plans' = [current_plans EXCEPT ![Cur].executed = TRUE]
    /\ Returned(TRUE)
    /\ UNCHANGED << config, envVars, radarr_objs, _plans, calls, requests,
                    faults >>

\* an unmonitor_movie without the early return: it writes every time
unmonitor_movie_rewrite(pos, putOk) ==
    /\ radarr_objs' = [radarr_objs EXCEPT ![pos].monitored = FALSE]
    /\ radarr' = IF putOk
                 THEN [radarr EXCEPT ![pos] =
                          [radarr_objs[pos] EXCEPT !.monitored = FALSE]]
                 ELSE radarr
    /\ calls' = Append(calls,
            Call("unmonitor_movie", CurKey, radarr_objs[pos].id, TRUE, putOk))

\* radarr_client.py: unmonitor_movie on the dict at position pos; putOk is
\* FALSE when the PUT raises
unmonitor_movie(pos, putOk) ==
    IF ~radarr_objs[pos].monitored
    THEN /\ calls' = Append(calls,
                 Call("unmonitor_movie", CurKey, radarr_objs[pos].id, FALSE, TRUE))
         /\ UNCHANGED << radarr_objs, radarr >>
    ELSE /\ radarr_objs' = [radarr_objs EXCEPT ![pos].monitored = FALSE]
         /\ radarr' = IF putOk
                      THEN [radarr EXCEPT ![pos] =
                               [radarr_objs[pos] EXCEPT !.monitored = FALSE]]
                      ELSE radarr
         /\ calls' = Append(calls,
                 Call("unmonitor_movie", CurKey, radarr_objs[pos].id, TRUE, putOk))

\* sonarr_client.py: unmonitor_episode on the plan's episode dict
unmonitor_episode(episode, putOk) ==
    IF ~episode.monitored
    THEN /\ calls' = Append(calls,
                 Call("unmonitor_episode", CurKey, episode.id, FALSE, TRUE))
         /\ UNCHANGED << current_plans, sonarr_episodes >>
    ELSE /\ current_plans' =
                [current_plans EXCEPT ![Cur].arr_episode[1].monitored = FALSE]
         /\ sonarr_episodes' =
                IF putOk
                THEN [i \in 1..Len(sonarr_episodes) |->
                         IF sonarr_episodes[i].id = episode.id
                         THEN [episode EXCEPT !.monitored = FALSE]
                         ELSE sonarr_episodes[i]]
                ELSE sonarr_episodes
         /\ calls' = Append(calls,
                 Call("unmonitor_episode", CurKey, episode.id, TRUE, putOk))

\* the answers the catalog may give to the write, if one is issued
PutAnswers(monitored) ==
    IF monitored /\ faults < MaxFaults THEN BOOLEAN ELSE {TRUE}

\* an execute_plan that unmonitors whatever auto_unmonitor says
ExecUnmonitor_always ==
    /\ pc = "plan"
    /\ ~config.dry_run
    /\ IF CurPlan.group.media_type = "movie" /\ CurPlan.arr_entry # NoPos
       THEN \E putOk \in PutAnswers(radarr_objs[CurPlan.arr_entry].monitored) :
               /\ unmonitor_movie(CurPlan.arr_entry, putOk)
               /\ faults' = IF putOk THEN faults ELSE faults + 1
               /\ UNCHANGED << current_plans, sonarr_episodes >>
       ELSE IF CurPlan.group.media_type = "episode" /\ CurPlan.arr_episode # <<>>
       THEN \E putOk \in PutAnswers(CurPlan.arr_episode[1].monitored) :
               /\ unmonitor_episode(CurPlan.arr_episode[1], putOk)
               /\ faults' = IF putOk THEN faults ELSE faults + 1
               /\ UNCHANGED << radarr_objs, radarr >>
       ELSE UNCHANGED << current_plans, sonarr_episodes, radarr_objs,
                         radarr, calls, faults >>
    /\ pc' = "remove"
    /\ fi' = 1
    /\ UNCHANGED << config, server, fs, dirs, bin, _plans, mode, batch, bi,
                    success, failed, rets, result, requests >>

\* execute_plan, live, step 1: unmonitor in Radarr/Sonarr.  The return
\* value of the unmonitor call is not looked at.
ExecUnmonitor ==
    /\ pc = "plan"
    /\ ~config.dry_run
    /\ IF config.auto_unmonitor /\ CurPlan.group.media_type = "movie"
          /\ CurPlan.arr_entry # NoPos
       THEN \E putOk \in PutAnswers(radarr_objs[CurPlan.arr_entry].monitored) :
               /\ unmonitor_movie(CurPlan.arr_entry, putOk)
               /\ faults' = IF putOk THEN faults ELSE faults + 1
               /\ UNCHANGED << current_plans, sonarr_episodes >>
       ELSE IF config.auto_unmonitor /\ CurPlan.group.media_type = "episode"
               /\ CurPlan.arr_episode # <<>>
       THEN \E putOk \in PutAnswers(CurPlan.arr_episode[1].monitored) :
               /\ unmonitor_episode(CurPlan.arr_episode[1], putOk)
               /\ faults' = IF putOk THEN faults ELSE faults + 1
               /\ UNCHANGED << radarr_objs, radarr >>
       ELSE UNCHANGED << current_plans, sonarr_episodes, radarr_objs,
                         radarr, calls, faults >>
    /\ pc' = "remove"
    /\ fi' = 1
    /\ UNCHANGED << config, server, fs, dirs, bin, _plans, mode, batch, bi,
                    success, failed, rets, result, requests >>

\* the files of the parts of a media item, as the server knows them
MediaPartFiles(srv, rating_key, media_id) ==
    LET items == srv.movies \o AllEpisodes(srv)
    IN  UNION {ItemFiles([items[i] EXCEPT !.media =
                   SelectSeq(items[i].media, LAMBDA md : md.id = media_id)]) :
               i \in {j \in 1..Len(items) : items[j].ratingKey = rating_key}}

Env == [server |-> server, fs |-> fs, dirs |-> dirs, bin |-> bin]

\* one way a step can go: the environment after it, the calls issued,
\* whether an exception came out, the transient failures it took
Outcome(env, issued, raised, nf) ==
    [server |-> env.server, fs |-> env.fs, dirs |-> env.dirs, bin |-> env.bin,
     calls |-> issued, raised |-> raised, nf |-> nf]

\* plex_client.py: delete_media.  TRUE only if the server holds the media
\* item and accepts the delete; FALSE on any other status or exception.
delete_media(env, key, rating_key, media_id) ==
    LET can == /\ env.server.allow_delete
               /\ ServerHasMedia(env.server, rating_key, media_id)
    IN  {Outcome(env, <<Call("delete_media", key, rating_key, media_id, FALSE)>>,
                 FALSE, IF can THEN 1 ELSE 0)}
        \cup
        (IF can
         THEN {Outcome([env EXCEPT
                          !.server = ServerDelete(env.server, rating_key, media_id),
                          !.fs = env.fs \ MediaPartFiles(env.server, rating_key,
                                                         media_id)],
                       <<Call("delete_media", key, rating_key, media_id, TRUE)>>,
                       FALSE, 0)}
         ELSE {})

\* shutil.move(file_path, os.path.join(recycle_bin, basename)); raises when
\* the source is missing or the filesystem refuses
MoveToRecycle(env, key, file_path, recycle_bin) ==
    LET dest == [dir |-> recycle_bin, base |-> file_path.base]
    IN  {Outcome(env, <<Call("move", key, file_path, dest, FALSE)>>, TRUE,
                 IF file_path \in env.fs THEN 1 ELSE 0)}
        \cup
        (IF file_path \in env.fs
         THEN {Outcome([env EXCEPT
                          !.fs = env.fs \ {file_path},
                          !.bin = {e \in env.bin : e.base # file_path.base}
                                  \cup {[base |-> file_path.base, from |-> file_path]}],
                       <<Call("move", key, file_path, dest, TRUE)>>, FALSE, 0)}
         ELSE {})

\* os.remove(file_path), then os.rmdir(parent) if parent is an empty
\* directory; either may raise
RemoveFromDisk(env, key, file_path) ==
    LET parent  == file_path.dir
        removed == [env EXCEPT !.fs = env.fs \ {file_path}]
        rmCall  == Call("remove", key, file_path, parent, TRUE)
        empty   == /\ parent \in env.dirs
                   /\ \A g \in removed.fs : g.dir # parent
    IN  {Outcome(env, <<Call("remove", key, file_path, parent, FALSE)>>, TRUE, 1)}
        \cup
        (IF empty
         THEN { Outcome([removed EXCEPT !.dirs = env.dirs \ {parent}],
                        <<rmCall, Call("rmdir", key, parent, parent, TRUE)>>,
                        FALSE, 0),
                Outcome(removed,
                        <<rmCall, Call("rmdir", key, parent, parent, FALSE)>>,
                        TRUE, 1) }
         ELSE {Outcome(removed, <<rmCall>>, FALSE, 0)})

\* a removal loop body that removes whatever delete_files says
RemoveFile_always(env, cfg, key, remove_file) ==
    LET tried == delete_media(env, key, remove_file.plex_rating_key,
                              remove_file.media_id)
        Fallback(d) ==
            IF d.calls[1].ok THEN {d}
            ELSE LET next ==
                       IF cfg.recycle_bin # ""
                       THEN MoveToRecycle(env, key, remove_file.file_path,
                                          cfg.recycle_bin)
                       ELSE IF remove_file.file_path \in env.fs
                       THEN RemoveFromDisk(env, key, remove_file.file_path)
                       ELSE {Outcome(env, <<>>, FALSE, 0)}
                 IN  {[o EXCEPT !.calls = d.calls \o o.calls,
                                !.nf = d.nf + o.nf] : o \in next}
    IN  UNION {Fallback(d) : d \in tried}

\* a removal loop body that deletes from disk whatever recycle_bin says
RemoveFile_no_recycle(env, cfg, key, remove_file) ==
    IF ~cfg.delete_files THEN {Outcome(env, <<>>, FALSE, 0)}
    ELSE LET tried == delete_media(env, key, remove_file.plex_rating_key,
                                   remove_file.media_id)
             Fallback(d) ==
                 IF d.calls[1].ok THEN {d}
                 ELSE LET next ==
                            IF remove_file.file_path \in env.fs
                            THEN RemoveFromDisk(env, key, remove_file.file_path)
                            ELSE {Outcome(env, <<>>, FALSE, 0)}
                      IN  {[o EXCEPT !.calls = d.calls \o o.calls,
                                     !.nf = d.nf + o.nf] : o \in next}
         IN  UNION {Fallback(d) : d \in tried}

\* execute_plan, live, step 2, the body of the loop for one remove_file:
\* every way it can go, with the calls it issues
RemoveFile(env, cfg, key, remove_file) ==
    IF ~cfg.delete_files THEN {Outcome(env, <<>>, FALSE, 0)}
    ELSE LET tried == delete_media(env, key, remove_file.plex_rating_key,
                                   remove_file.media_id)
             Fallback(d) ==
                 IF d.calls[1].ok THEN {d}
                 ELSE LET next ==
                            IF cfg.recycle_bin # ""
                            THEN MoveToRecycle(env, key, remove_file.file_path,
                                               cfg.recycle_bin)
                            ELSE IF remove_file.file_path \in env.fs
                            THEN RemoveFromDisk(env, key, remove_file.file_path)
                            ELSE {Outcome(env, <<>>, FALSE, 0)}
                      IN  {[o EXCEPT !.calls = d.calls \o o.calls,
                                     !.nf = d.nf + o.nf] : o \in next}
         IN  UNION {Fallback(d) : d \in tried}

\* a removal loop that goes on to the next file after a removal has raised
ExecRemove_continue ==
    /\ pc = "remove"
    /\ fi <= Len(CurPlan.remove)
    /\ \E o \in RemoveFile(Env, config, CurKey, CurPlan.remove[fi]) :
          /\ faults + o.nf <= MaxFaults
          /\ faults' = faults + o.nf
          /\ server' = o.server
          /\ fs' = o.fs
          /\ dirs' = o.dirs
          /\ bin' = o.bin
          /\ calls' = calls \o o.calls
          /\ current_plans' =
                IF o.raised
                THEN [current_plans EXCEPT ![Cur].error = "OSError"]
                ELSE current_plans
          /\ fi' = fi + 1
          /\ UNCHANGED << pc, mode, batch, bi, success, failed, rets, result >>
    /\ UNCHANGED << config, radarr, sonarr_episodes, radarr_objs, _plans,
                    requests >>

ExecRemove ==
    /\ pc = "remove"
    /\ fi <= Len(CurPlan.remove)
    /\ \E o \in RemoveFile(Env, config, CurKey, CurPlan.remove[fi]) :
          /\ faults + o.nf <= MaxFaults
          /\ faults' = faults + o.nf
          /\ server' = o.server
          /\ fs' = o.fs
          /\ dirs' = o.dirs
          /\ bin' = o.bin
          /\ calls' = calls \o o.calls
          /\ IF o.raised
             THEN /\ current_plans' =
                        [current_plans EXCEPT ![Cur].error = "OSError"]
                  /\ Returned(FALSE)
             ELSE /\ fi' = fi + 1
                  /\ UNCHANGED << current_plans, pc, mode, batch, bi, success,
                                  failed, rets, result >>
    /\ UNCHANGED << config, radarr, sonarr_episodes, radarr_objs, _plans,
                    requests >>

\* execute_plan, live: the loop is over
ExecFinish ==
    /\ pc = "remove"
    /\ fi > Len(CurPlan.remove)
    /\ current_plans' = [current_plans EXCEPT ![Cur].executed = TRUE]
    /\ Returned(TRUE)
    /\ UNCHANGED << config, envVars, radarr_objs, _plans, calls, requests,
                    faults >>

\* an execute_all that refreshes whenever the run is live
ExecRefresh_any ==
    /\ pc = "refresh"
    /\ IF ~config.dry_run
       THEN \E ok1, ok2 \in BOOLEAN :
               calls' = calls \o << Call("refresh_library", 0, "movie", 0, ok1),
                                    Call("refresh_library", 0, "tv", 0, ok2) >>
       ELSE UNCHANGED calls
    /\ result' = [kind |-> "batch", success |-> success, failed |-> failed]
    /\ pc' = "idle"
    /\ UNCHANGED << config, envVars, radarr_objs, current_plans, _plans,
                    loopVars, requests, faults >>

\* execute_all after the loop: refresh both libraries (a failing refresh
\* is logged and swallowed) and return the counts
ExecRefresh ==
    /\ pc = "refresh"
    /\ IF ~config.dry_run /\ success > 0
       THEN \E ok1, ok2 \in BOOLEAN :
               calls' = calls \o << Call("refresh_library", 0, "movie", 0, ok1),
                                    Call("refresh_library", 0, "tv", 0, ok2) >>
       ELSE UNCHANGED calls
    /\ result' = [kind |-> "batch", success |-> success, failed |-> failed]
    /\ pc' = "idle"
    /\ UNCHANGED << config, envVars, radarr_objs, current_plans, _plans,
                    loopVars, requests, faults >>

ScanTypes == {"all", "tv", "movies"}
ConfigStrategies == Strategies \cup {"bogus"}
Collaborators == {"plexMovies", "plexTv", "radarr", "sonarr", "episodes"}
\* the scans explored together with plan execution: both libraries, the
\* catalogs reachable or not
ExecScanTypes == {"all"}
ExecOutages == {{}, {"radarr", "sonarr"}}

Next ==
    \/ \E scan_type \in ExecScanTypes, down \in ExecOutages :
          api_scan(scan_type, down)
    \/ \E b \in BOOLEAN :
          \/ api_config(b, config.keep_strategy, config.auto_unmonitor,
                        config.delete_files)
          \/ api_config(config.dry_run, config.keep_strategy, b,
                        config.delete_files)
          \/ api_config(config.dry_run, config.keep_strategy,
                        config.auto_unmonitor, b)
    \/ \E selected_keys \in Selections : api_execute(selected_keys)
    \/ \E rating_key \in PlanKeys \cup {MissingKey} : api_execute_single(rating_key)
    \/ ExecDry
    \/ ExecUnmonitor
    \/ ExecRemove
    \/ ExecFinish
    \/ ExecRefresh

Spec == Init /\ [][Next]_vars

(***************************************************************************)
(* The scan alone, over every keep strategy, scan type and outage.         *)
(***************************************************************************)
InitScanConfigs ==
    [ dry_run : {TRUE}, keep_strategy : Strategies, auto_unmonitor : {TRUE},
      delete_files : {TRUE}, recycle_bin : {""},
      quality_ranks : {quality_ranks} ]

InitScan ==
    InitWith(InitScanConfigs, {srv \in ServerSnapshots : srv.allow_delete})

NextScan ==
    \/ \E scan_type \in ScanTypes, down \in SUBSET Collaborators :
          api_scan(scan_type, down)
    \/ \E keep_strategy \in ConfigStrategies :
          api_config(config.dry_run, keep_strategy, config.auto_unmonitor,
                     config.delete_files)

SpecScan == InitScan /\ [][NextScan]_vars

(***************************************************************************)
(* The selectors and the matchers alone, applied to file lists and groups  *)
(* drawn from bounded sets.                                                *)
(***************************************************************************)
\* the longest file list drawn
MaxFiles == 3

PickVariants ==
    { [res |-> "1080", bitrate |-> 20000, streams |-> VA("h264", "dts"),
       path |-> Path("/pick", "pick.bluray.mkv", {"bluray"})],
      [res |-> "720", bitrate |-> 4000, streams |-> VA("hevc", "aac"),
       path |-> Path("/pick", "pick.webrip.mkv", {"webrip"})],
      [res |-> "sd", bitrate |-> 0, streams |-> <<>>,
       path |-> Path("/pick", "pick.avi", {})] }

PickSizes == {1, 2}
PickAdded == {1, 2}

\* the MediaFile at position oid of a drawn list
PickFile(oid, d) ==
    MediaFile(oid,
              PlexMovie(1, "Pick", 2000, d[3], Guids(None, None, None), <<>>),
              PlexMedia(oid, d[1].res, d[1].bitrate, <<>>),
              PlexPart(d[1].path, d[2], d[1].streams, TRUE),
              "movie", "", NoInt, NoInt)

PickLists ==
    UNION { [1..n -> PickVariants \X PickSizes \X PickAdded] : n \in 1..MaxFiles }

FnMovieGroups ==
    { [MovieGroup(MvMatrix) EXCEPT !.tmdb_id = tmdb, !.imdb_id = imdb,
                                  !.title = title, !.year = year] :
        tmdb \in {None, "", "603", "348", "777"},
        imdb \in {None, "tt0133093", "tt0078748", "tt7"},
        title \in {"Alien", "Heat", "Blade"},
        year \in {NoInt, 1979, 1995} }

FnEpisodeGroups ==
    { [EpisodeGroup(ShowBB, EpPilot) EXCEPT !.tvdb_id = tvdb, !.imdb_id = imdb,
                                           !.show_title = show_title,
                                           !.season_number = season,
                                           !.episode_number = episode] :
        tvdb \in {None, "81189", "73739", "5"},
        imdb \in {None, "tt0903747", "tt0959621"},
        show_title \in {"", "Breaking Bad", "Lost", "Dark"},
        season \in {NoInt, 1, 2},
        episode \in {NoInt, 1, 2} }

\* the plan the loop body of scan_movies / scan_episodes builds for a group
FnPlan(group, arr_entry, arr_episode) ==
    LET picked == pick_keeper(group.files, config.keep_strategy,
                              config.quality_ranks)
    IN  DeduplicationPlan(group, picked.keeper,
                          ToRemove(group.files, picked.keeper), picked.reason,
                          arr_entry, arr_episode)

\* nothing has been applied yet
FnReady == pc = "idle" /\ result = NoResult

FnDone(kind, plan, issued) ==
    /\ current_plans' = <<plan>>
    /\ calls' = issued
    /\ result' = [kind |-> kind, success |-> 0, failed |-> 0]
    /\ UNCHANGED << config, envVars, radarr_objs, _plans, pc, loopVars,
                    requests, faults >>

\* pick_keeper(files)
PickKeeper ==
    /\ FnReady
    /\ \E d \in PickLists :
        LET files == [i \in 1..Len(d) |-> PickFile(i, d[i])]
            group == DuplicateGroup("Pick", 2000, 1, files, None, None, None,
                                    "movie", "", NoInt, NoInt)
        IN  FnDone("pick", FnPlan(group, NoPos, <<>>), <<>>)

\* _find_in_radarr(group, _build_radarr_index())
FindInRadarr ==
    /\ FnReady
    /\ \E group \in FnMovieGroups, fetchOk \in BOOLEAN :
        FnDone("movie",
               FnPlan(group, _find_in_radarr(group,
                                 _build_radarr_index(radarr, fetchOk)), <<>>),
               <<Call("get_all_movies", 0, 0, 0, fetchOk)>>)

\* _find_in_sonarr(group, _build_sonarr_index())
FindInSonarr ==
    /\ FnReady
    /\ \E group \in FnEpisodeGroups, fetchOk \in BOOLEAN, episodesOk \in BOOLEAN :
        LET found == _find_in_sonarr(group,
                                     _build_sonarr_index(SonarrCatalog, fetchOk),
                                     SonarrCatalog, sonarr_episodes, episodesOk)
        IN  FnDone("episode",
                   FnPlan(group, found.series,
                          IF found.episode = NoPos THEN <<>>
                          ELSE <<sonarr_episodes[found.episode]>>),
                   <<Call("get_all_series", 0, 0, 0, fetchOk)>>
                   \o (IF found.looked_up
                       THEN <<Call("get_episodes", 0,
                                   SonarrCatalog[found.series].id, 0, episodesOk)>>
                       ELSE <<>>))

ScoreResolutions == {"2160p", "1080p", "720p", "576p", "480p", "4k", "sd", ""}

ScorePaths ==
    { Path("/score", "score.mkv", {}),
      Path("/score", "score.dvd.mkv", {"dvd"}),
      Path("/score", "score.hdtv.mkv", {"hdtv"}),
      Path("/score", "score.bluray.mkv", {"bluray"}) }

ScoreBitrates == {0, 20000, 60000}

ScoreVideoCodecs == {"", "HEVC"}

ScoreAudioCodecs ==
    {"", "MP3", "AAC", "DD", "AC3", "DD+", "E-AC3", "EAC3", "DTS", "PCM",
     "FLAC", "DTS:X", "DTS-HD", "TRUEHD"}

\* one file, or two files that differ in nothing but their resolution
ScoreDraws ==
    [ path : ScorePaths, bitrate : ScoreBitrates, video : ScoreVideoCodecs,
      audio : ScoreAudioCodecs,
      res : UNION { [1..n -> ScoreResolutions] : n \in 1..2 } ]

\* the MediaFile at position oid of a drawn list
ScoreFile(oid, d) ==
    [ MediaFile(oid,
                PlexMovie(1, "Score", 2000, 1, Guids(None, None, None), <<>>),
                PlexMedia(oid, "", d.bitrate, <<>>),
                PlexPart(d.path, 1, <<>>, TRUE),
                "movie", "", NoInt, NoInt)
      EXCEPT !.resolution = d.res[oid], !.video_codec = d.video,
             !.audio_codec = d.audio ]

\* _pick_best_quality(files): the files are scored, the best file and its
\* score are returned
ScoreFiles ==
    /\ FnReady
    /\ config.keep_strategy = "best_quality"
    /\ \E d \in ScoreDraws :
        LET files == [i \in 1..Len(d.res) |-> ScoreFile(i, d)]
            group == DuplicateGroup("Score", 2000, 1, files, None, None, None,
                                    "movie", "", NoInt, NoInt)
        IN  FnDone("score", FnPlan(group, NoPos, <<>>), <<>>)

InitFnConfigs ==
    [ dry_run : {TRUE}, keep_strategy : ConfigStrategies, auto_unmonitor : {TRUE},
      delete_files : {TRUE}, recycle_bin : {""}, quality_ranks : RankTables ]

InitFn ==
    InitWith(InitFnConfigs,
             {srv \in ServerSnapshots : srv.allow_delete /\ srv.shows # <<>>})

NextFn ==
    \/ PickKeeper
    \/ FindInRadarr
    \/ FindInSonarr
    \/ ScoreFiles

SpecFn == InitFn /\ [][NextFn]_vars

(***************************************************************************)
(* Properties.                                                             *)
(***************************************************************************)
PlanByKey(key) ==
    current_plans[CHOOSE i \in 1..Len(current_plans) :
                     current_plans[i].group.plex_rating_key = key]

RemovalOps == {"delete_media", "move", "remove", "rmdir"}
UnmonitorOps == {"unmonitor_movie", "unmonitor_episode"}

\* a batch has returned and its result is on display
BatchDone == pc = "idle" /\ result.kind = "batch"

\* C1: every plan built by a scan partitions its group: the keeper is one
\* of the N >= 2 files of the group, the removal list has N-1 members, none
\* of them the keeper, removal list plus keeper is the group's file list,
\* and the removal list keeps the relative order of the group's files.
C1_PlanPartition ==
    \A i \in 1..Len(current_plans) :
        LET plan   == current_plans[i]
            files  == plan.group.files
            n      == Len(files)
            Pos(f) == CHOOSE k \in 1..n : files[k].oid = f.oid
        IN  /\ n >= 2
            /\ \E k \in 1..n : files[k] = plan.keep
            /\ Len(plan.remove) = n - 1
            /\ \A j \in 1..Len(plan.remove) : plan.remove[j].oid # plan.keep.oid
            /\ Range(plan.remove) \cup {plan.keep} = Range(files)
            /\ \A a, b \in 1..Len(plan.remove) :
                  a < b => Pos(plan.remove[a]) < Pos(plan.remove[b])

\* a plan for a group of three files whose keeper is not the first file
C1_Witness ==
    \E i \in 1..Len(current_plans) :
        /\ Len(current_plans[i].group.files) = 3
        /\ current_plans[i].keep.oid = 2
        /\ Len(current_plans[i].remove) = 2
        /\ config.keep_strategy = "largest_file"

\* C2: live execution of a plan never removes the plan's keeper: no
\* media-server delete names the keeper's (rating key, media id), and no
\* filesystem move or delete is issued on the keeper's path.
C2_KeeperNeverRemoved ==
    \A n \in 1..Len(calls) :
        LET c == calls[n]
        IN  /\ c.op = "delete_media" =>
                 ~ ( /\ c.a = PlanByKey(c.key).keep.plex_rating_key
                     /\ c.b = PlanByKey(c.key).keep.media_id )
            /\ c.op \in {"move", "remove"} =>
                 c.a # PlanByKey(c.key).keep.file_path

\* C3: a plan of a batch that raises is counted as one failure and nothing
\* else changes: the loop goes on to the next plan of the same batch, the
\* success count and the other plans are untouched, and when the batch
\* returns every plan of it has been executed.
C3_FailureIsolated ==
    /\ [](BatchDone => Len(rets) = Len(batch))
    /\ [][ (mode = "batch" /\ Len(rets') = Len(rets) + 1 /\ ~rets'[Len(rets')])
            => /\ failed' = failed + 1
               /\ success' = success
               /\ batch' = batch
               /\ bi' = bi + 1
               /\ pc' = IF bi < Len(batch) THEN "plan" ELSE "refresh"
               /\ config' = config
               /\ \A j \in 1..Len(current_plans) :
                     j # batch[bi] => current_plans'[j] = current_plans[j] ]_vars

\* a batch in which a plan failed and a later plan succeeded
C3_Witness ==
    /\ BatchDone
    /\ \E j, k \in 1..Len(rets) : j < k /\ ~rets[j] /\ rets[k]

\* C4: in live mode a failure of the unmonitor write or of a file removal
\* of a plan makes that plan fail: execute_plan returns false, executed
\* stays false and the error is set.
C4_FailureCaptured ==
    \A j \in 1..Len(rets) :
        LET plan == current_plans[batch[j]]
        IN  (\E n \in 1..Len(calls) :
                /\ calls[n].key = plan.group.plex_rating_key
                /\ calls[n].op \in UnmonitorOps \cup {"move", "remove", "rmdir"}
                /\ ~calls[n].ok)
            => (~rets[j] /\ ~plan.executed /\ plan.error # None)


\* C5: in a dry run no call is issued to any collaborator, every plan of
\* the batch ends with executed = true and no error, and the result is
\* {success: number of plans, failed: 0}.
C5_DryRunBatch ==
    (config.dry_run /\ BatchDone) =>
        /\ calls = <<>>
        /\ result.success = Len(batch)
        /\ result.failed = 0
        /\ \A j \in 1..Len(batch) :
              /\ current_plans[batch[j]].executed
              /\ current_plans[batch[j]].error = None

\* a step of execute_plan leaves every plan that already carries a status
\* (executed or failed) as it is
KeepsWrittenStatus ==
    pc \in {"plan", "remove"} =>
        \A i \in 1..Len(current_plans) :
            (current_plans[i].executed \/ current_plans[i].error # None)
            => (/\ current_plans'[i].executed = current_plans[i].executed
                /\ current_plans'[i].error = current_plans[i].error)

\* C6: status and error of a plan are written once: while plans are being
\* executed, a plan that is already executed or failed keeps its executed
\* flag and its error.
C6_WrittenOnce ==
    [][KeepsWrittenStatus]_vars

\* C7: no plan is both executed and failed.
C7_StatusExclusive ==
    \A i \in 1..Len(current_plans) :
        ~(current_plans[i].executed /\ current_plans[i].error # None)

\* C8: the counts a batch returns are exact: success + failed is the number
\* of plans of the batch, success is the number of execute_plan calls that
\* returned true (those plans are executed), failed the number that
\* returned false (those plans carry an error).
C8_ExactCounts ==
    BatchDone =>
        /\ Len(rets) = Len(batch)
        /\ result.success + result.failed = Len(batch)
        /\ result.success = Cardinality({j \in 1..Len(rets) : rets[j]})
        /\ result.failed = Cardinality({j \in 1..Len(rets) : ~rets[j]})
        /\ \A j \in 1..Len(rets) :
              /\ rets[j] => current_plans[batch[j]].executed
              /\ ~rets[j] => current_plans[batch[j]].error # None

\* a batch that returned with successes and failures
C8_Witness ==
    BatchDone /\ result.success >= 1 /\ result.failed >= 1

IsRefresh(c) == c.op = "refresh_library"

\* the step after the loop of execute_all leaves plans and counts alone
RefreshKeepsOutcome ==
    pc = "refresh" =>
        (/\ current_plans' = current_plans
         /\ result' = [kind |-> "batch", success |-> success,
                       failed |-> failed]
         /\ UNCHANGED << success, failed, rets >>)

\* C9: a library refresh is issued by a batch exactly when the run is live
\* and a plan succeeded; it comes after every call of every plan of the
\* batch, and the refresh step, failing or not, changes neither the counts
\* nor any plan.
C9_RefreshAfterBatch ==
    /\ [](BatchDone =>
            ((\E n \in 1..Len(calls) : IsRefresh(calls[n]))
             <=> (~config.dry_run /\ result.success > 0)))
    /\ [](\A n \in 1..Len(calls) :
            IsRefresh(calls[n]) =>
               /\ pc = "idle"
               /\ Len(rets) = Len(batch)
               /\ \A m \in n..Len(calls) : IsRefresh(calls[m]))
    /\ [][RefreshKeepsOutcome]_vars

\* a batch with a failed plan and a successful plan whose refresh failed
C9_Witness ==
    /\ BatchDone
    /\ result.success >= 1
    /\ result.failed >= 1
    /\ \E n \in 1..Len(calls) : IsRefresh(calls[n]) /\ ~calls[n].ok

\* C10: within a live plan the unmonitor call comes before every removal
\* call of that plan, and it is made only with auto_unmonitor on and a
\* catalog match: the movie entry for a movie group, the episode entry for
\* an episode group.
C10_UnmonitorFirst ==
    \A n \in 1..Len(calls) :
        calls[n].op \in UnmonitorOps =>
            LET plan == PlanByKey(calls[n].key)
            IN  /\ ~config.dry_run
                /\ config.auto_unmonitor
                /\ calls[n].op = "unmonitor_movie" =>
                      /\ plan.group.media_type = "movie"
                      /\ plan.arr_entry # NoPos
                /\ calls[n].op = "unmonitor_episode" =>
                      /\ plan.group.media_type = "episode"
                      /\ plan.arr_episode # <<>>
                /\ \A m \in 1..(n - 1) :
                      ~(calls[m].key = calls[n].key /\ calls[m].op \in RemovalOps)

\* a plan whose unmonitor call wrote to the catalog and was followed by the
\* removal of a file
C10_Witness ==
    \E n, m \in 1..Len(calls) :
        /\ n < m
        /\ calls[n].op \in UnmonitorOps
        /\ calls[n].b
        /\ calls[m].key = calls[n].key
        /\ calls[m].op \in RemovalOps

\* the monitored field of the catalog entry the running plan would
\* unmonitor, as the program holds it
EntryMonitored(plans, objs) ==
    IF plans[Cur].group.media_type = "movie"
    THEN objs[plans[Cur].arr_entry].monitored
    ELSE plans[Cur].arr_episode[1].monitored

\* the monitored field of the entry with that id, as the catalog holds it
CatalogMonitored(op, id, movies, episodes) ==
    IF op = "unmonitor_movie"
    THEN \E i \in 1..Len(movies) : movies[i].id = id /\ movies[i].monitored
    ELSE \E i \in 1..Len(episodes) : episodes[i].id = id /\ episodes[i].monitored

\* one unmonitor call: on an entry already unmonitored it writes nothing,
\* returns success and changes no catalog; on a monitored entry it issues
\* the write; either way the entry's monitored field is false afterwards,
\* and so is the catalog's when the write went through
UnmonitorStep ==
    (pc = "plan" /\ Len(calls') = Len(calls) + 1) =>
        LET c == calls'[Len(calls')]
            before == EntryMonitored(current_plans, radarr_objs)
        IN  /\ c.op \in UnmonitorOps
            /\ ~EntryMonitored(current_plans', radarr_objs')
            /\ ~before => (/\ ~c.b
                           /\ c.ok
                           /\ radarr' = radarr
                           /\ sonarr_episodes' = sonarr_episodes)
            /\ before => (/\ c.b
                          /\ c.ok => ~CatalogMonitored(c.op, c.a, radarr',
                                                      sonarr_episodes'))

\* while plans are executed no entry's monitored field goes back to true
StaysUnmonitored ==
    pc # "idle" =>
        /\ \A i \in 1..Len(radarr_objs) :
              ~radarr_objs[i].monitored => ~radarr_objs'[i].monitored
        /\ \A i \in 1..Len(current_plans) :
              (/\ current_plans[i].arr_episode # <<>>
               /\ ~current_plans[i].arr_episode[1].monitored)
              => ~current_plans'[i].arr_episode[1].monitored

\* C11: set-unmonitored is idempotent: a call on an entry whose monitored
\* field is already false writes nothing and returns success, so of two
\* successive calls on a monitored entry only the first writes, and the
\* entry's monitored field is false after each.
C11_UnmonitorIdempotent ==
    /\ [][UnmonitorStep]_vars
    /\ [][StaysUnmonitored]_vars

\* the second call on the Radarr entry of "The Matrix" (monitored when the
\* program starts): no write, success
C11_Witness ==
    \E n \in 1..Len(calls) :
        /\ calls[n].op = "unmonitor_movie"
        /\ calls[n].a = 1
        /\ ~calls[n].b
        /\ calls[n].ok

\* the removal of one file of the running plan, delete_files being true:
\* the media-server delete comes first and, if it succeeds, nothing else is
\* called; if it fails the file is moved to the recycle location when one is
\* set, otherwise removed from disk if it exists, and then its parent
\* directory is removed exactly when nothing else is left in it
RemovalStep ==
    (pc = "remove" /\ fi <= Len(CurPlan.remove) /\ config.delete_files
     /\ calls' # calls) =>
        LET f      == CurPlan.remove[fi]
            path   == f.file_path
            parent == path.dir
            new    == SubSeq(calls', Len(calls) + 1, Len(calls'))
            others == \E g \in fs \ {path} : g.dir = parent
        IN  /\ Len(new) >= 1
            /\ new[1].op = "delete_media"
            /\ new[1].a = f.plex_rating_key
            /\ new[1].b = f.media_id
            /\ new[1].ok => Len(new) = 1
            /\ ~new[1].ok =>
                 IF config.recycle_bin # ""
                 THEN /\ Len(new) = 2
                      /\ new[2].op = "move"
                      /\ new[2].a = path
                      /\ new[2].b = [dir |-> config.recycle_bin, base |-> path.base]
                      /\ new[2].ok => (/\ path \notin fs'
                                       /\ \E e \in bin' : e.from = path)
                      /\ dirs' = dirs
                 ELSE IF path \in fs
                 THEN /\ Len(new) \in {2, 3}
                      /\ new[2].op = "remove"
                      /\ new[2].a = path
                      /\ new[2].ok => path \notin fs'
                      /\ bin' = bin
                      /\ others => (Len(new) = 2 /\ dirs' = dirs)
                      /\ (~others /\ new[2].ok /\ parent \in dirs) =>
                            (/\ Len(new) = 3
                             /\ new[3].op = "rmdir"
                             /\ new[3].a = parent
                             /\ new[3].ok => parent \notin dirs')
                      /\ Len(new) = 3 => (~others /\ new[2].ok)
                 ELSE /\ Len(new) = 1
                      /\ fs' = fs
                      /\ dirs' = dirs
                      /\ bin' = bin

\* every removal of a live plan begins with the media-server delete
RemovalBegins ==
    (pc = "remove" /\ fi <= Len(CurPlan.remove) /\ config.delete_files) =>
        (calls' # calls \/ UNCHANGED vars)

\* C12: each file of a live removal set, delete_files being true, is first
\* deleted through the media server; the filesystem is touched only if that
\* fails: the file is moved to the recycle location when recycle_bin is set
\* and never deleted, otherwise deleted directly, and then its parent
\* directory is removed only if it is empty.
C12_RemovalProcedure ==
    /\ [][RemovalStep]_vars
    /\ [][RemovalBegins]_vars

\* a file the media server refused to delete was removed from disk, and its
\* directory, left empty, was removed too
C12_Witness ==
    \E n \in 1..(Len(calls) - 2) :
        /\ calls[n].op = "delete_media"
        /\ ~calls[n].ok
        /\ calls[n + 1].op = "remove"
        /\ calls[n + 1].ok
        /\ calls[n + 2].op = "rmdir"
        /\ calls[n + 2].ok

\* the position in the plan list of the plan with that rating key
PlanPos(key) ==
    CHOOSE i \in 1..Len(current_plans) :
        current_plans[i].group.plex_rating_key = key

\* the rating keys of the library items in the order the media server lists
\* them: the movies, then the episodes show by show
LibraryOrder ==
    SeqMap(LAMBDA item : item.ratingKey, server.movies \o AllEpisodes(server))

LibraryPos(key) ==
    CHOOSE i \in 1..Len(LibraryOrder) : LibraryOrder[i] = key

\* the calls issued on behalf of plans (all but the library refresh)
PlanCalls == SelectSeq(calls, LAMBDA c : c.op \in RemovalOps \cup UnmonitorOps)

\* C13: plans are executed in the order of the plan list the scan built
\* (movie plans in library order, then episode plans in library order):
\* every call made for a plan is issued before any call of a later plan,
\* and no plan is begun before the ones ahead of it have returned.
C13_PlanOrder ==
    /\ result.kind = "scan" =>
          \A i, j \in 1..Len(current_plans) :
              i < j =>
                 /\ ~(/\ current_plans[i].group.media_type = "episode"
                      /\ current_plans[j].group.media_type = "movie")
                 /\ LibraryPos(current_plans[i].group.plex_rating_key)
                       < LibraryPos(current_plans[j].group.plex_rating_key)
    /\ (mode = "batch" /\ batch # <<>>) =>
          /\ \A j, k \in 1..Len(batch) : j < k => batch[j] < batch[k]
          /\ \A n, m \in 1..Len(PlanCalls) :
                n < m => PlanPos(PlanCalls[n].key) <= PlanPos(PlanCalls[m].key)
          /\ \A n \in 1..Len(PlanCalls) :
                \E j \in 1..Min(bi, Len(batch)) :
                    batch[j] = PlanPos(PlanCalls[n].key)
          /\ pc \in {"plan", "remove"} => Len(rets) = bi - 1

\* a batch of two plans has returned, calls were issued for both
C13_Witness ==
    /\ BatchDone
    /\ Len(batch) >= 2
    /\ \E n, m \in 1..Len(PlanCalls) : PlanCalls[n].key # PlanCalls[m].key

\* the position in the group's file list of the file the plan keeps
KeeperPos(plan) ==
    CHOOSE k \in 1..Len(plan.group.files) :
        plan.group.files[k].oid = plan.keep.oid

\* C14: largest_file keeps a file of maximal file_size and newest a file of
\* maximal added timestamp; of several files with the maximum the earliest
\* in the list is kept.
C14_LargestNewest ==
    \A i \in 1..Len(current_plans) :
        LET plan  == current_plans[i]
            files == plan.group.files
            k     == KeeperPos(plan)
        IN  result.kind = "pick" =>
              /\ files[k] = plan.keep
              /\ config.keep_strategy = "largest_file" =>
                    /\ \A j \in 1..Len(files) :
                          files[j].file_size <= plan.keep.file_size
                    /\ \A j \in 1..(k - 1) :
                          files[j].file_size < plan.keep.file_size
              /\ config.keep_strategy = "newest" =>
                    /\ \A j \in 1..Len(files) :
                          files[j].added_at <= plan.keep.added_at
                    /\ \A j \in 1..(k - 1) :
                          files[j].added_at < plan.keep.added_at

\* largest_file on a list whose first file is smaller and whose second and
\* third share the maximum: the second is kept
C14_Witness ==
    /\ result.kind = "pick"
    /\ config.keep_strategy = "largest_file"
    /\ Len(current_plans[1].group.files) = 3
    /\ current_plans[1].group.files[2].file_size
          = current_plans[1].group.files[3].file_size
    /\ current_plans[1].group.files[1].file_size
          < current_plans[1].group.files[2].file_size
    /\ current_plans[1].keep.oid = 2

\* C15: best_quality keeps a file of maximal quality score; of several
\* files with the maximal score the earliest in the list is kept.
C15_BestQuality ==
    \A i \in 1..Len(current_plans) :
        LET plan  == current_plans[i]
            files == plan.group.files
            k     == KeeperPos(plan)
            best  == _score_file(plan.keep, config.quality_ranks)
        IN  (result.kind = "pick" /\ config.keep_strategy = "best_quality") =>
              /\ files[k] = plan.keep
              /\ \A j \in 1..Len(files) :
                    _score_file(files[j], config.quality_ranks) <= best
              /\ \A j \in 1..(k - 1) :
                    _score_file(files[j], config.quality_ranks) < best

\* best_quality on a list whose first file scores lower and whose second
\* and third share the maximal score: the second is kept
C15_Witness ==
    /\ result.kind = "pick"
    /\ config.keep_strategy = "best_quality"
    /\ Len(current_plans[1].group.files) = 3
    /\ _score_file(current_plans[1].group.files[2], config.quality_ranks)
          = _score_file(current_plans[1].group.files[3], config.quality_ranks)
    /\ _score_file(current_plans[1].group.files[1], config.quality_ranks)
          < _score_file(current_plans[1].group.files[2], config.quality_ranks)
    /\ current_plans[1].keep.oid = 2

\* C16: with a keep_strategy outside {best_quality, largest_file, newest}
\* pick_keeper returns, without an error, the keeper and the reason that
\* best_quality returns for the same list.
C16_UnknownStrategy ==
    \A i \in 1..Len(current_plans) :
        LET plan == current_plans[i]
            same == _pick_best_quality(plan.group.files, config.quality_ranks)
        IN  (result.kind = "pick" /\ config.keep_strategy \notin Strategies) =>
              /\ plan.keep = same.keeper
              /\ plan.reason = same.reason

\* an unknown strategy applied to a list on which best_quality, largest_file
\* and newest keep three different files
C16_Witness ==
    /\ result.kind = "pick"
    /\ config.keep_strategy \notin Strategies
    /\ current_plans[1].keep.oid
          # _pick_largest(current_plans[1].group.files).keeper.oid
    /\ current_plans[1].keep.oid
          # _pick_newest(current_plans[1].group.files).keeper.oid
    /\ _pick_largest(current_plans[1].group.files).keeper.oid
          # _pick_newest(current_plans[1].group.files).keeper.oid

\* the last position of a set of catalog positions (the entry an index
\* keeps under a key), NoPos if there is none
LastPos(S) == IF S = {} THEN NoPos ELSE CHOOSE i \in S : \A j \in S : j <= i

\* the Radarr entries that carry the group's movie-database id, its IMDB id,
\* its title and year
RadarrByTmdb(group) ==
    LastPos({i \in 1..Len(radarr) :
                Truthy(group.tmdb_id) /\ Str(radarr[i].tmdbId) = group.tmdb_id})

RadarrByImdb(group) ==
    LastPos({i \in 1..Len(radarr) :
                Truthy(group.imdb_id) /\ radarr[i].imdbId = group.imdb_id})

RadarrByTitle(group) ==
    LastPos({i \in 1..Len(radarr) :
                /\ Lower(radarr[i].title) = Lower(group.title)
                /\ Str(radarr[i].year)
                      = (IF group.year = NoInt THEN "" ELSE Str(group.year))})

\* C17: for a movie group the catalog lookup returns the first hit in the
\* order movie-database id, IMDB id, title+year, whatever entry a later key
\* would give, and None when no key hits.
C17_RadarrPriority ==
    \A i \in 1..Len(current_plans) :
        LET plan  == current_plans[i]
            group == plan.group
        IN  (result.kind = "movie" /\ calls[1].ok) =>
               plan.arr_entry =
                  IF RadarrByTmdb(group) # NoPos THEN RadarrByTmdb(group)
                  ELSE IF RadarrByImdb(group) # NoPos THEN RadarrByImdb(group)
                  ELSE RadarrByTitle(group)

\* a group whose movie-database id and whose title+year are indexed to
\* different entries got the entry under the movie-database id
C17_Witness ==
    /\ result.kind = "movie"
    /\ calls[1].ok
    /\ RadarrByTmdb(current_plans[1].group) # NoPos
    /\ RadarrByTitle(current_plans[1].group) # NoPos
    /\ RadarrByTitle(current_plans[1].group) # RadarrByTmdb(current_plans[1].group)
    /\ current_plans[1].arr_entry = RadarrByTmdb(current_plans[1].group)

SonarrByImdb(group) ==
    LastPos({i \in 1..Len(SonarrCatalog) :
                Truthy(group.imdb_id) /\ SonarrCatalog[i].imdbId = group.imdb_id})

\* C18: for an episode group the series lookup tries the IMDB id before the
\* TV-database id: a group whose IMDB id is indexed gets the series under
\* that id, whatever its TV-database id is indexed to.
C18_SonarrPriority ==
    \A i \in 1..Len(current_plans) :
        LET plan == current_plans[i]
        IN  (/\ result.kind = "episode"
             /\ calls[1].ok
             /\ SonarrByImdb(plan.group) # NoPos)
            => plan.arr_entry = SonarrByImdb(plan.group)

\* the episodes Sonarr lists for the series at that catalog position with
\* the group's season and episode numbers
EpisodeHits(series, group) ==
    {i \in 1..Len(sonarr_episodes) :
        /\ sonarr_episodes[i].seriesId = SonarrCatalog[series].id
        /\ sonarr_episodes[i].seasonNumber = group.season_number
        /\ sonarr_episodes[i].episodeNumber = group.episode_number}

\* C19: the episode entry is looked up only once a series is resolved and
\* season and episode number are both present; the entry returned has that
\* (season, episode) pair within the resolved series, and there is none
\* when the series is unresolved, a number is missing, no episode matches,
\* or the episode list cannot be fetched.
C19_EpisodeLookup ==
    \A i \in 1..Len(current_plans) :
        LET plan   == current_plans[i]
            group  == plan.group
            wanted == /\ plan.arr_entry # NoPos
                      /\ group.season_number # NoInt
                      /\ group.episode_number # NoInt
        IN  result.kind = "episode" =>
              /\ Len(calls) = (IF wanted THEN 2 ELSE 1)
              /\ wanted => (/\ calls[2].op = "get_episodes"
                            /\ calls[2].a = SonarrCatalog[plan.arr_entry].id)
              /\ plan.arr_episode # <<>> =>
                    /\ wanted
                    /\ calls[2].ok
                    /\ plan.arr_episode[1].seriesId
                          = SonarrCatalog[plan.arr_entry].id
                    /\ plan.arr_episode[1].seasonNumber = group.season_number
                    /\ plan.arr_episode[1].episodeNumber = group.episode_number
                    /\ \E n \in EpisodeHits(plan.arr_entry, group) :
                          sonarr_episodes[n] = plan.arr_episode[1]
              /\ plan.arr_episode = <<>> =>
                    \/ ~wanted
                    \/ ~calls[2].ok
                    \/ EpisodeHits(plan.arr_entry, group) = {}

\* the first episode of the second series was looked up and found
C19_Witness ==
    /\ result.kind = "episode"
    /\ current_plans[1].arr_entry = 2
    /\ current_plans[1].arr_episode # <<>>
    /\ current_plans[1].arr_episode[1].id = 200

\* the number of items with at least two readable parts
DuplicateCount(items) ==
    Cardinality({i \in 1..Len(items) :
        Len(SelectSeq(Flatten(SeqMap(LAMBDA md : md.parts, items[i].media)),
                      LAMBDA part : part.ok)) > 1})

PlansOf(media_type) ==
    SelectSeq(current_plans, LAMBDA plan : plan.group.media_type = media_type)

\* C20: a scan whose catalog fetch failed still returns one plan for every
\* duplicate group, each without a catalog match.
C20_FetchFailure ==
    \A n \in 1..Len(calls) :
        /\ (result.kind = "scan" /\ calls[n].op = "get_all_movies"
            /\ ~calls[n].ok) =>
              /\ Len(PlansOf("movie")) = DuplicateCount(server.movies)
              /\ \A i \in 1..Len(PlansOf("movie")) :
                    PlansOf("movie")[i].arr_entry = NoPos
        /\ (result.kind = "scan" /\ calls[n].op = "get_all_series"
            /\ ~calls[n].ok) =>
              /\ Len(PlansOf("episode"))
                    = DuplicateCount(Flatten(SeqMap(
                          LAMBDA sh : IF sh.episodesOk THEN sh.episodes ELSE <<>>,
                          server.shows)))
              /\ \A i \in 1..Len(PlansOf("episode")) :
                    /\ PlansOf("episode")[i].arr_entry = NoPos
                    /\ PlansOf("episode")[i].arr_episode = <<>>

\* a scan without Radarr built a plan for a movie that Radarr lists
C20_Witness ==
    /\ result.kind = "scan"
    /\ \E n \in 1..Len(calls) : calls[n].op = "get_all_movies" /\ ~calls[n].ok
    /\ \E i \in 1..Len(current_plans) :
          /\ current_plans[i].group.media_type = "movie"
          /\ current_plans[i].arr_entry = NoPos
          /\ RadarrByTmdb(current_plans[i].group) # NoPos

\* the rating keys of the items with at least two readable parts, in
\* library order
DuplicateKeys(items) ==
    SeqMap(LAMBDA item : item.ratingKey,
           SelectSeq(items, LAMBDA item : DuplicateCount(<<item>>) = 1))

\* the episodes of the shows whose episode list can be fetched
FetchedEpisodes ==
    Flatten(SeqMap(LAMBDA sh : IF sh.episodesOk THEN sh.episodes ELSE <<>>,
                   server.shows))

\* the last request was a scan of both libraries: whether the media server
\* answered for the library of that kind
LibraryAsked(op) == \E n \in 1..Len(calls) : calls[n].op = op

LibraryOk(op) == \E n \in 1..Len(calls) : calls[n].op = op /\ calls[n].ok

ScannedAll ==
    /\ LibraryAsked("find_movie_duplicates")
    /\ LibraryAsked("find_episode_duplicates")

\* C21: in scan_all a failure of the media server for one library aborts
\* only that library's scan: scan_all raises nothing and returns the plans
\* of the movie library, if its scan succeeded, followed by the plans of
\* the TV library, if its scan succeeded.
C21_ScanAllIsolated ==
    ScannedAll =>
        /\ result.kind = "scan"
        /\ current_plans = PlansOf("movie") \o PlansOf("episode")
        /\ SeqMap(LAMBDA plan : plan.group.plex_rating_key, PlansOf("movie"))
              = (IF LibraryOk("find_movie_duplicates")
                 THEN DuplicateKeys(server.movies) ELSE <<>>)
        /\ SeqMap(LAMBDA plan : plan.group.plex_rating_key, PlansOf("episode"))
              = (IF LibraryOk("find_episode_duplicates")
                 THEN DuplicateKeys(FetchedEpisodes) ELSE <<>>)

\* the movie library could not be scanned, the TV library gave a plan
C21_Witness ==
    /\ ScannedAll
    /\ ~LibraryOk("find_movie_duplicates")
    /\ DuplicateKeys(server.movies) # <<>>
    /\ Len(current_plans) >= 1

\* C22: of two files that differ only in their resolution label, the one
\* whose resolution rank is higher scores at least as much as the other:
\* best_quality, given the higher-ranked file first, keeps it.
C22_ResolutionMonotone ==
    \A i \in 1..Len(current_plans) :
        LET plan  == current_plans[i]
            files == plan.group.files
        IN  (/\ result.kind = "score"
             /\ Len(files) = 2
             /\ _parse_resolution_rank(files[1].resolution)
                   > _parse_resolution_rank(files[2].resolution))
            => plan.keep = files[1]

\* C23: the quality score is non-negative for every file and every rank
\* table.
C23_ScoreNonNegative ==
    \A i \in 1..Len(current_plans) :
        result.kind = "score" => current_plans[i].reason[2] >= 0

\* the audio-codec tiers as specified, by label
AudioTier(audio_codec) ==
    CASE audio_codec \in {"TRUEHD", "TRUEHD ATMOS"} -> 10
      [] audio_codec \in {"DTS-HD", "DTS:X"}        -> 8
      [] audio_codec \in {"FLAC", "PCM"}            -> 7
      [] audio_codec = "DTS"                        -> 5
      [] audio_codec \in {"E-AC3", "EAC3", "DD+"}   -> 4
      [] audio_codec \in {"AC3", "DD"}              -> 3
      [] audio_codec = "AAC"                        -> 2
      [] OTHER                                      -> 0

\* C24: the audio-codec bonus of a file (its score less the score of the
\* same file without audio codec) is the value of the first matching tier:
\* TrueHD/Atmos 10, DTS-HD/DTS:X 8, FLAC/PCM 7, DTS 5, E-AC3/DD+ 4, AC3/DD
\* 3, AAC 2, otherwise 0.
C24_AudioTiers ==
    \A i \in 1..Len(current_plans) :
        LET plan == current_plans[i]
            bare == [plan.keep EXCEPT !.audio_codec = ""]
        IN  (result.kind = "score" /\ Len(plan.group.files) = 1) =>
               plan.reason[2] - _score_file(bare, config.quality_ranks)
                  = 100 * AudioTier(plan.keep.audio_codec)

\* /api/execute hands execute_all the plans it selected, and execute_all
\* runs those and no others
ExplicitList ==
    \A selected_keys \in Selections :
        (current_plans # <<>> /\ api_execute(selected_keys)) =>
            /\ batch' = PlansToRun(selected_keys)
            /\ PlansToRun(selected_keys) = <<>> => pc' = "refresh"

\* C25: execute_all called with an explicit plan list executes only the
\* plans of that list; with an empty list (selected rating keys that match
\* no plan) it executes no plan and goes straight to its return.
C25_ExplicitPlanList ==
    [][ExplicitList]_vars

\* the plan has been executed live: it is marked executed and the files of
\* its removal set are gone
LiveExecuted(plan) ==
    /\ plan.executed
    /\ \A j \in 1..Len(plan.remove) : plan.remove[j].file_path \notin fs

\* no call is issued on behalf of a plan that has been executed live
NoRepeat ==
    (pc \in {"plan", "remove"} /\ calls' # calls) => ~LiveExecuted(CurPlan)

\* C26: over any sequence of execute requests on the same scan result, a
\* plan that is already executed is not executed again: no unmonitor and no
\* removal is issued for it a second time.
C26_ExecutedOnce ==
    [][NoRepeat]_vars

\* an unmonitor call whose catalog write fails leaves the entry's monitored
\* field as it was (true)
FailedWriteKeepsField ==
    (pc = "plan" /\ Len(calls') = Len(calls) + 1) =>
        LET c == calls'[Len(calls')]
        IN  (c.b /\ ~c.ok) => EntryMonitored(current_plans', radarr_objs')

\* C27: if the catalog write of an unmonitor call fails, the call returns
\* false and the entry's monitored field stays as it was; an unmonitor call
\* returns true only when the catalog holds monitored = false for the entry.
C27_FailedWriteRetried ==
    /\ [][FailedWriteKeepsField]_vars
    /\ [](\A n \in 1..Len(calls) :
             (calls[n].op \in UnmonitorOps /\ calls[n].ok) =>
                 ~CatalogMonitored(calls[n].op, calls[n].a, radarr,
                                   sonarr_episodes))

FilesystemOps == {"move", "remove", "rmdir"}

\* C28: in a live plan the first file removal that raises stops the plan:
\* nothing more is called for that plan, what was done before (unmonitor,
\* earlier removals) stays done, the plan carries an error and execute_plan
\* returned false.
C28_RemovalFailureStops ==
    \A n \in 1..Len(calls) :
        (calls[n].op \in FilesystemOps /\ ~calls[n].ok) =>
            LET key  == calls[n].key
                plan == PlanByKey(key)
            IN  /\ \A m \in (n + 1)..Len(calls) : calls[m].key # key
                /\ plan.error # None
                /\ \E j \in 1..Len(rets) : batch[j] = PlanPos(key) /\ ~rets[j]
                /\ \A m \in 1..(n - 1) :
                      (calls[m].key = key /\ calls[m].ok) =>
                         /\ calls[m].op \in {"move", "remove"} =>
                               calls[m].a \notin fs
                         /\ calls[m].op = "delete_media" =>
                               ~ServerHasMedia(server, calls[m].a, calls[m].b)
                         /\ (calls[m].op \in UnmonitorOps /\ calls[m].b) =>
                               ~CatalogMonitored(calls[m].op, calls[m].a,
                                                 radarr, sonarr_episodes)

\* the removal of the first of two files of a plan raised after the plan's
\* entry was unmonitored, and the batch has returned
C28_Witness ==
    /\ BatchDone
    /\ \E n \in 1..Len(calls) :
          /\ calls[n].op = "remove"
          /\ ~calls[n].ok
          /\ Len(PlanByKey(calls[n].key).remove) = 2
          /\ calls[n].a = PlanByKey(calls[n].key).remove[1].file_path
          /\ \E m \in 1..(n - 1) :
                /\ calls[m].key = calls[n].key
                /\ calls[m].op \in UnmonitorOps
                /\ calls[m].b
                /\ calls[m].ok

\* C29: every file the last request moved to the recycle location is still
\* there, under a path of its own.
C29_RecycledRecoverable ==
    \A n \in 1..Len(calls) :
        (calls[n].op = "move" /\ calls[n].ok) =>
            \E e \in bin : e.from = calls[n].a

\* the plan has a catalog entry to unmonitor
Matched(plan) ==
    \/ plan.group.media_type = "movie" /\ plan.arr_entry # NoPos
    \/ plan.group.media_type = "episode" /\ plan.arr_episode # <<>>

\* C30: live with delete_files false, executing a plan issues no
\* media-server delete and no filesystem move, delete or rmdir; the
\* unmonitor call is still made when auto_unmonitor is on and the plan has
\* a catalog match, the plan ends executed and is counted as a success.
C30_DeleteFilesOff ==
    (~config.dry_run /\ ~config.delete_files) =>
        /\ \A n \in 1..Len(calls) : calls[n].op \notin RemovalOps
        /\ \A j \in 1..Len(rets) :
              LET plan == current_plans[batch[j]]
              IN  /\ rets[j]
                  /\ plan.executed
                  /\ (config.auto_unmonitor /\ Matched(plan)) =>
                        \E n \in 1..Len(calls) :
                            /\ calls[n].op \in UnmonitorOps
                            /\ calls[n].key = plan.group.plex_rating_key
        /\ BatchDone => (result.success = Len(batch) /\ result.failed = 0)

\* a live batch with delete_files off has returned: an entry was
\* unmonitored, every plan succeeded
C30_Witness ==
    /\ ~config.dry_run
    /\ ~config.delete_files
    /\ BatchDone
    /\ result.success >= 1
    /\ \E n \in 1..Len(calls) :
          calls[n].op \in UnmonitorOps /\ calls[n].b /\ calls[n].ok

====
